---- MODULE Spec2Model ----
(***************************************************************************)
(* Verification model of cardinal: the indexed graph (slab arena, name     *)
(* index), the change-event ingest, the cancellation token and the query   *)
(* evaluator of search-cache, and the name pool of namepool.               *)
(***************************************************************************)
EXTENDS Integers, Sequences, FiniteSets, TLC

VARIABLES
    file_nodes,     \* SearchCache.file_nodes: the slab, key -> entry
    slab_free,      \* the slab's free list, most recently vacated key first
    root,           \* the slab key of the root node
    name_index,     \* SearchCache.name_index: name -> node ids
    last_op,        \* ghost: the last graph operation and its outcome
    active_version, \* the token issuer's current generation
    tokens,         \* the tokens handed out so far, oldest first
    reports,        \* ghost: what is_cancelled() last answered for each token
    query,          \* the evaluate_expr call in progress: expression and token
    outcome,        \* what that call returned
    event_queue,    \* the batch the event watcher is putting together
    source,         \* the event source: its latest id, and whether that
                    \* event was the first half of a rename
    last_event_id,  \* SearchCache.last_event_id: the change cursor
    rename_window,  \* Renamed halves that wait for their partner
    last_batch,     \* ghost: the batch handled last and what came of it
    seen,           \* ghost: largest event id processed / applied in full
    pool,           \* NamePool.pool: the bytes of the name pool
    pushed,         \* ghost: the push calls so far, oldest first
    last_search,    \* ghost: the last search and what it returned
    processor,      \* the Processor of the fs event thread: its channels, its
                    \* database and how its thread fares
    last_rewrite,   \* ghost: the query last parsed or preprocessed, before
                    \* and after
    display,        \* the processor's bounded pipe of events for displaying,
                    \* the fill_fs_event and take_fs_events calls in progress
    worker,         \* the background thread of the shells with its cache, the
                    \* event watchers, the channels, the main thread and the
                    \* search commands
    walker,         \* ghost: the last walk of fswalk, its faults and its result
    visitors        \* the parallel visitors of the sdk's scan with their
                    \* buffers, the channel of raw entries and the inserting loop

vars == <<file_nodes, slab_free, root, name_index, last_op,
          active_version, tokens, reports, query, outcome,
          event_queue, source, last_event_id, rename_window, last_batch, seen,
          pool, pushed, last_search, processor, last_rewrite, display, worker,
          walker, visitors>>

\* the variables of the processes around the cache
hostVars == <<display, worker, walker, visitors>>

\* the variables of the cache, the pool, the processor and the queries
coreVars == <<file_nodes, slab_free, root, name_index, last_op,
              active_version, tokens, reports, query, outcome,
              event_queue, source, last_event_id, rename_window, last_batch, seen,
              pool, pushed, last_search, processor, last_rewrite>>

poolVars == <<pool, pushed, last_search>>

ingestVars == <<event_queue, source, last_event_id, rename_window,
                last_batch, seen>>

evalVars == <<query, outcome>>

graphVars == <<file_nodes, slab_free, root, name_index, last_op>>

tokenVars == <<active_version, tokens, reports>>

----------------------------------------------------------------------------
(* Bounds and program constants *)

\* number of nodes the explored graphs hold at most
MaxNodes == 3

\* number of tokens handed out in one run
MaxTokens == 5

\* number of nodes of the graphs that queries are evaluated on
MaxEvalNodes == 3

\* Largest id the event source hands out.
MaxEventId == 3

\* Largest number of events the watcher puts in one batch.
MaxBatch == 2

\* number of push calls made on one name pool
MaxPushes == 3

\* number of events that wait in the processor's system channel
MaxPending == 2

\* number of events handed to fill_fs_event in one run
MaxFills == 5

\* capacity of the display pipe in the explored runs; the program's is
\* FS_EVENTS_CHANNEL_LEN
ChannelLen == 2

\* number of batches the event watchers of one run send
MaxBatches == 2

\* number of search commands of one run
MaxSearches == 2

\* number of Interrupted failures of one kind on one directory
MaxInterrupts == 2

\* number of entries the walk hands to the visitors of one scan
MaxEntries == 4

\* entries a visitor collects before it sends them in the explored runs; the
\* program's is CHUNK_SIZE
ChunkLen == 2

\* OptionSlabIndex::none(): the reserved value u32::MAX, which is no slab key
\* (slab keys are 0..=u32::MAX-1); written -1 here, outside every key as well
OptionSlabIndex_none == 0 - 1

\* file names used for non-root nodes
Names == {"a", "b"}

\* the root's name is the empty name
RootName == ""

\* file names with and without an extension, for the extension filter
ExtNames == {"a.txt", "b.TXT", "c.", "d", "e.tar.gz"}

AllNames == Names \cup ExtNames \cup {RootName}

\* metadata slots handed to insert_child: not yet fetched, with the file type
\* known from the directory entry
MetadataNone(type) == [state |-> "None", type |-> type]

MetadataSlots == {MetadataNone("File"), MetadataNone("Dir")}

\* the absolute path of the root node, as path components
RootPath == <<"root">>

\* query.rs CANCEL_CHECK_INTERVAL
CANCEL_CHECK_INTERVAL == 65536

\* Processor::FS_EVENTS_CHANNEL_LEN
FS_EVENTS_CHANNEL_LEN == 1024

----------------------------------------------------------------------------
(* Sequence helpers *)

Range(s) == {s[i] : i \in DOMAIN s}

Without(s, x) == SelectSeq(s, LAMBDA y : y # x)

RECURSIVE Concat(_)
Concat(ss) == IF ss = <<>> THEN <<>> ELSE Head(ss) \o Concat(Tail(ss))

Max(S) == CHOOSE x \in S : \A y \in S : y <= x

----------------------------------------------------------------------------
(* The slab (ThinSlab over slab::Slab) *)

Vacant ==
    [present |-> FALSE, name |-> RootName, parent |-> OptionSlabIndex_none,
     children |-> <<>>, metadata |-> MetadataNone("Dir")]

\* SlabNode::new: no children yet
SlabNode_new(parent, name, metadata) ==
    [present |-> TRUE, name |-> name, parent |-> parent,
     children |-> <<>>, metadata |-> metadata]

\* A graph value: the fields of SearchCache that the operations touch.
Graph(nodes, free, r, index) ==
    [nodes |-> nodes, free |-> free, root |-> r, index |-> index]

SlabLen(g) == Cardinality(DOMAIN g.nodes)

\* ThinSlab::get(index).is_some()
Present(g, n) == n \in DOMAIN g.nodes /\ g.nodes[n].present

PresentIds(g) == {n \in DOMAIN g.nodes : g.nodes[n].present}

\* The key the next insert returns: the head of the free list, else a new
\* slot at the end of the entries vector.
NextKey(g) == IF g.free # <<>> THEN Head(g.free) ELSE SlabLen(g)

\* ThinSlab::insert
ThinSlab_insert(g, value) ==
    LET key == NextKey(g) IN
    [g EXCEPT !.nodes = [k \in (DOMAIN g.nodes) \cup {key} |->
                            IF k = key THEN value ELSE g.nodes[k]],
              !.free = IF g.free # <<>> THEN Tail(g.free) ELSE <<>>]

\* a try_remove that reports the removal but leaves the entry in place
ThinSlab_try_remove_dropped(g, n) == g

\* ThinSlab::try_remove: a vacant or unknown key removes nothing
ThinSlab_try_remove(g, n) ==
    IF Present(g, n)
    THEN [g EXCEPT !.nodes[n] = Vacant, !.free = <<n>> \o g.free]
    ELSE g

\* add_children with its membership test inverted
SlabNode_add_children_inverted(children, child) ==
    IF child \in Range(children) THEN Append(children, child) ELSE children

\* SlabNode::add_children: push unless the id is already listed
SlabNode_add_children(children, child) ==
    IF child \in Range(children) THEN children ELSE Append(children, child)

----------------------------------------------------------------------------
(* Graph operations *)

ChildNamed(g, parent, name) ==
    {c \in Range(g.nodes[parent].children) :
        Present(g, c) /\ g.nodes[c].name = name}

\* insert_child that allocates the arena slot before it looks for a sibling
\* of the same name, and keeps the slot when it refuses
insert_child_alloc_first(g, parent, name, metadata) ==
    LET key == NextKey(g)
        g1 == ThinSlab_insert(g, SlabNode_new(parent, name, metadata))
    IN  IF ChildNamed(g, parent, name) # {}
        THEN [g |-> g1, status |-> "AlreadyExists", id |-> OptionSlabIndex_none]
        ELSE [g |-> [g1 EXCEPT !.nodes[parent].children =
                                   SlabNode_add_children(@, key),
                               !.index[name] = Append(@, key)],
              status |-> "Ok", id |-> key]

\* insert_child(parent, name, metadata): refuse a duplicate sibling name,
\* else allocate the slot, link it under the parent and index its name
insert_child(g, parent, name, metadata) ==
    IF ChildNamed(g, parent, name) # {}
    THEN [g |-> g, status |-> "AlreadyExists", id |-> OptionSlabIndex_none]
    ELSE LET key == NextKey(g)
             g1 == ThinSlab_insert(g, SlabNode_new(parent, name, metadata))
             g2 == [g1 EXCEPT !.nodes[parent].children =
                        SlabNode_add_children(@, key)]
             g3 == [g2 EXCEPT !.index[name] = Append(@, key)]
         IN [g |-> g3, status |-> "Ok", id |-> key]

\* the ids remove(n) visits: every descendant first, then n
RECURSIVE PostOrder(_, _)
PostOrder(g, n) ==
    LET ch == g.nodes[n].children IN
    Concat([i \in DOMAIN ch |-> PostOrder(g, ch[i])]) \o <<n>>

\* remove one node: out of its parent's child list, out of name_index, and
\* its slot back to the slab
remove_single(g, n) ==
    IF ~Present(g, n) THEN g
    ELSE LET node == g.nodes[n]
             g1 == IF node.parent # OptionSlabIndex_none /\ Present(g, node.parent)
                   THEN [g EXCEPT !.nodes[node.parent].children = Without(@, n)]
                   ELSE g
             g2 == [g1 EXCEPT !.index[node.name] = Without(@, n)]
         IN ThinSlab_try_remove(g2, n)

RECURSIVE remove_all(_, _)
remove_all(g, ids) ==
    IF ids = <<>> THEN g ELSE remove_all(remove_single(g, Head(ids)), Tail(ids))

\* remove(node): returns the number of removed nodes
remove(g, n) ==
    IF ~Present(g, n) THEN [g |-> g, count |-> 0]
    ELSE LET ids == PostOrder(g, n)
         IN [g |-> remove_all(g, ids), count |-> Len(ids)]

Siblings(g, n) ==
    IF g.nodes[n].parent = OptionSlabIndex_none THEN {}
    ELSE Range(g.nodes[g.nodes[n].parent].children) \ {n}

\* rename(node, new_name)
rename(g, n, new_name) ==
    IF \E s \in Siblings(g, n) : Present(g, s) /\ g.nodes[s].name = new_name
    THEN [g |-> g, status |-> "AlreadyExists"]
    ELSE LET old == g.nodes[n].name
             g1 == [g EXCEPT !.index[old] = Without(@, n)]
             g2 == [g1 EXCEPT !.index[new_name] = Append(@, n)]
             g3 == [g2 EXCEPT !.nodes[n].name = new_name]
         IN [g |-> g3, status |-> "Ok"]

----------------------------------------------------------------------------
(* The query evaluator (query.rs) *)

\* Result<Option<Vec<SlabIndex>>>: Ok(Some(v)), Ok(None) and Err(_)
OkSome(v) == [kind |-> "Some", nodes |-> v]

OkNone == [kind |-> "None", nodes |-> <<>>]

Err == [kind |-> "Err", nodes |-> <<>>]

\* Expr and Term of cardinal_syntax, as records of one shape
ExprEmpty == [tag |-> "Empty", kind |-> "", arg |-> <<>>, parts |-> <<>>]

ExprTerm(kind, arg) == [tag |-> "Term", kind |-> kind, arg |-> arg, parts |-> <<>>]

ExprNot(inner) == [tag |-> "Not", kind |-> "", arg |-> <<>>, parts |-> <<inner>>]

ExprAnd(parts) == [tag |-> "And", kind |-> "", arg |-> <<>>, parts |-> parts]

ExprOr(parts) == [tag |-> "Or", kind |-> "", arg |-> <<>>, parts |-> parts]

\* the order of names (the empty name first)
NameOrder == <<RootName, "a", "b">>

\* `i % CANCEL_CHECK_INTERVAL == 0 && token.is_cancelled()` inside a loop over
\* len elements: a cancelled token is noticed if some index is checked
CancelSeenInLoop(len, cancelled) ==
    cancelled /\ \E i \in 0..(len - 1) : i % CANCEL_CHECK_INTERVAL = 0

\* the names a regex pattern accepts; {} with valid = FALSE when the pattern
\* does not compile
RegexOf(pattern) ==
    CASE pattern = "^.*$" -> [valid |-> TRUE, names |-> AllNames]
      [] pattern = "^a$" -> [valid |-> TRUE, names |-> {"a"}]
      [] pattern = "^b$" -> [valid |-> TRUE, names |-> {"b"}]
      [] OTHER -> [valid |-> FALSE, names |-> {}]

\* wildcard_to_regex: '^' .. '$' around the pattern, '*' becoming '.*'
wildcard_to_regex(text) ==
    CASE text = <<"*">> -> "^.*$"
      [] text = <<"a">> -> "^a$"
      [] text = <<"b">> -> "^b$"
      [] OTHER -> "("

\* NAME_POOL.search_*(needle, token): the interned names the matcher accepts,
\* in order; no result when the token is cancelled
NAME_POOL_search(accepted, cancelled) ==
    IF cancelled THEN [found |-> FALSE, names |-> <<>>]
    ELSE [found |-> TRUE,
          names |-> SelectSeq(NameOrder, LAMBDA k : k \in accepted)]

\* the children of node that the matcher accepts, sorted by name
child_matches(g, node, accepted) ==
    LET ch == g.nodes[node].children IN
    Concat([r \in DOMAIN NameOrder |->
               SelectSeq(ch, LAMBDA c : /\ g.nodes[c].name = NameOrder[r]
                                        /\ NameOrder[r] \in accepted)])

RECURSIVE matchers_loop(_, _, _, _, _)
matchers_loop(g, matchers, i, node_set, cancelled) ==
    IF i > Len(matchers) THEN OkSome(node_set)
    ELSE IF CancelSeenInLoop(Len(node_set), cancelled) THEN OkNone
    ELSE matchers_loop(g, matchers, i + 1,
             Concat([j \in DOMAIN node_set |->
                        child_matches(g, node_set[j], matchers[i])]),
             cancelled)

\* SearchCache::execute_matchers; a matcher is the set of names it accepts
execute_matchers(g, matchers, cancelled) ==
    IF matchers = <<>> THEN OkSome(<<>>)
    ELSE LET found == NAME_POOL_search(matchers[1], cancelled) IN
         IF ~found.found THEN OkNone
         ELSE IF CancelSeenInLoop(Len(found.names), cancelled) THEN OkNone
         ELSE matchers_loop(g, matchers, 2,
                  Concat([j \in DOMAIN found.names |-> g.index[found.names[j]]]),
                  cancelled)

\* SearchCache::evaluate_regex
evaluate_regex(g, pattern, cancelled) ==
    IF ~RegexOf(pattern).valid THEN Err
    ELSE execute_matchers(g, <<RegexOf(pattern).names>>, cancelled)

\* SearchCache::evaluate_phrase: one plain matcher per segment; a name of the
\* model is a single letter, so a plain needle accepts the equal name only
evaluate_phrase(g, segments, cancelled) ==
    IF segments = <<>> THEN Err
    ELSE execute_matchers(g, [j \in DOMAIN segments |-> {segments[j]}], cancelled)

\* SearchCache::evaluate_word
evaluate_word(g, text, cancelled) ==
    IF "*" \in Range(text) \/ "?" \in Range(text)
    THEN evaluate_regex(g, wildcard_to_regex(text), cancelled)
    ELSE evaluate_phrase(g, text, cancelled)

\* the slab keys of the present nodes, ascending
IdsAscending(g) ==
    SelectSeq([i \in 1..SlabLen(g) |-> i - 1], LAMBDA n : Present(g, n))

\* SearchCache::search_empty: every node; None when cancelled
search_empty(g, cancelled) ==
    IF cancelled THEN OkNone ELSE OkSome(IdsAscending(g))

RECURSIVE DescendantsOf(_, _)
DescendantsOf(g, n) ==
    LET ch == g.nodes[n].children IN
    Concat([i \in DOMAIN ch |-> <<ch[i]>> \o DescendantsOf(g, ch[i])])

\* SearchCache::all_subnodes: every descendant, the node itself excluded;
\* None when cancelled
all_subnodes(g, n, cancelled) ==
    IF cancelled THEN OkNone ELSE OkSome(DescendantsOf(g, n))

StartsWith(path, prefix) ==
    Len(path) >= Len(prefix) /\ SubSeq(path, 1, Len(prefix)) = prefix

RECURSIVE descend(_, _, _)
descend(g, n, comps) ==
    IF comps = <<>> THEN n
    ELSE LET m == ChildNamed(g, n, Head(comps)) IN
         IF m = {} THEN OptionSlabIndex_none
         ELSE descend(g, CHOOSE c \in m : TRUE, Tail(comps))

\* SearchCache::node_index_for_raw_path: descend from the root, component by
\* component; none if a component is missing
node_index_for_raw_path(g, path) ==
    IF ~StartsWith(path, RootPath) \/ ~Present(g, g.root)
    THEN OptionSlabIndex_none
    ELSE descend(g, g.root, SubSeq(path, Len(RootPath) + 1, Len(path)))

\* filter_nodes; keep is the set of nodes the predicate accepts
filter_nodes(nodes, cancelled, keep) ==
    IF CancelSeenInLoop(Len(nodes), cancelled) THEN OkNone
    ELSE OkSome(SelectSeq(nodes, LAMBDA n : n \in keep))

\* SearchCache::evaluate_type_filter
evaluate_type_filter(g, file_type, argument, cancelled) ==
    LET base == IF argument # <<>> THEN evaluate_phrase(g, argument, cancelled)
                ELSE search_empty(g, cancelled)
    IN  IF base.kind # "Some" THEN base
        ELSE filter_nodes(base.nodes, cancelled,
                 {n \in PresentIds(g) : g.nodes[n].metadata.type = file_type})

\* the characters of a name or of a filter argument
Chars(text) ==
    CASE text = "" -> <<>>
      [] text = "a.txt" -> <<"a", ".", "t", "x", "t">>
      [] text = "b.TXT" -> <<"b", ".", "T", "X", "T">>
      [] text = "c." -> <<"c", ".">>
      [] text = "e.tar.gz" -> <<"e", ".", "t", "a", "r", ".", "g", "z">>
      [] text = "txt" -> <<"t", "x", "t">>
      [] text = "TXT" -> <<"T", "X", "T">>
      [] text = ".txt" -> <<".", "t", "x", "t">>
      [] text = " gz " -> <<" ", "g", "z", " ">>
      [] text = "gz" -> <<"g", "z">>
      [] text = "tar.gz" -> <<"t", "a", "r", ".", "g", "z">>
      [] text = "." -> <<".">>
      [] OTHER -> <<text>>

\* char::to_ascii_lowercase
char_to_ascii_lowercase(c) ==
    CASE c = "T" -> "t"
      [] c = "X" -> "x"
      [] OTHER -> c

\* str::to_ascii_lowercase
to_ascii_lowercase(chars) == [i \in DOMAIN chars |-> char_to_ascii_lowercase(chars[i])]

\* str::trim
RECURSIVE trim_start(_)
trim_start(chars) ==
    IF chars # <<>> /\ Head(chars) = " " THEN trim_start(Tail(chars)) ELSE chars

RECURSIVE trim_end(_)
trim_end(chars) ==
    IF chars # <<>> /\ chars[Len(chars)] = " "
    THEN trim_end(SubSeq(chars, 1, Len(chars) - 1)) ELSE chars

trim(chars) == trim_end(trim_start(chars))

\* str::trim_start_matches('.')
RECURSIVE trim_start_matches_dot(_)
trim_start_matches_dot(chars) ==
    IF chars # <<>> /\ Head(chars) = "." THEN trim_start_matches_dot(Tail(chars))
    ELSE chars

\* normalize_extension: None for what is empty once trimmed
normalize_extension(raw) ==
    LET trimmed == trim_start_matches_dot(trim(Chars(raw)))
    IN  IF trimmed = <<>> THEN [found |-> FALSE, ext |-> <<>>]
        ELSE [found |-> TRUE, ext |-> to_ascii_lowercase(trimmed)]

\* normalize_extensions: the set of the normalized items of the argument, a
\* list or a single raw value
normalize_extensions(argument) ==
    {normalize_extension(argument[i]).ext :
        i \in {i \in DOMAIN argument : normalize_extension(argument[i]).found}}

\* extension_of: the lowercased text after the last '.', if there is any
extension_of(name) ==
    LET chars == Chars(name)
        dots == {i \in DOMAIN chars : chars[i] = "."}
    IN  IF dots = {} \/ Max(dots) >= Len(chars) THEN [found |-> FALSE, ext |-> <<>>]
        ELSE [found |-> TRUE,
              ext |-> to_ascii_lowercase(SubSeq(chars, Max(dots) + 1, Len(chars)))]

\* evaluate_extension_filter that takes the extension as it is written
evaluate_extension_filter_exact_case(g, argument, cancelled) ==
    LET extensions == {Chars(argument[i]) : i \in DOMAIN argument} IN
    IF extensions = {} THEN Err
    ELSE LET base == search_empty(g, cancelled) IN
         IF base.kind # "Some" THEN base
         ELSE filter_nodes(base.nodes, cancelled,
                  {n \in PresentIds(g) :
                      /\ g.nodes[n].metadata.type = "File"
                      /\ extension_of(g.nodes[n].name).found
                      /\ extension_of(g.nodes[n].name).ext \in extensions})

\* SearchCache::evaluate_extension_filter; argument holds the raw items
evaluate_extension_filter(g, argument, cancelled) ==
    LET extensions == normalize_extensions(argument) IN
    IF extensions = {} THEN Err
    ELSE LET base == search_empty(g, cancelled) IN
         IF base.kind # "Some" THEN base
         ELSE filter_nodes(base.nodes, cancelled,
                  {n \in PresentIds(g) :
                      /\ g.nodes[n].metadata.type = "File"
                      /\ extension_of(g.nodes[n].name).found
                      /\ extension_of(g.nodes[n].name).ext \in extensions})

\* SearchCache::resolve_query_path
resolve_query_path(raw) == StartsWith(raw, RootPath)

\* evaluate_parent_filter that answers a missing folder with no nodes
evaluate_parent_filter_lenient(g, argument, cancelled) ==
    IF ~resolve_query_path(argument) THEN OkSome(<<>>)
    ELSE LET target == node_index_for_raw_path(g, argument) IN
         IF target = OptionSlabIndex_none THEN OkSome(<<>>)
         ELSE OkSome(g.nodes[target].children)

\* SearchCache::evaluate_parent_filter: the token is not consulted
evaluate_parent_filter(g, argument, cancelled) ==
    IF ~resolve_query_path(argument) THEN Err
    ELSE LET target == node_index_for_raw_path(g, argument) IN
         IF target = OptionSlabIndex_none THEN Err
         ELSE OkSome(g.nodes[target].children)

\* SearchCache::evaluate_infolder_filter
evaluate_infolder_filter(g, argument, cancelled) ==
    IF ~resolve_query_path(argument) THEN Err
    ELSE LET target == node_index_for_raw_path(g, argument) IN
         IF target = OptionSlabIndex_none THEN Err
         ELSE all_subnodes(g, target, cancelled)

\* SearchCache::evaluate_filter; has_argument is filter.argument.is_some()
evaluate_filter(g, term, cancelled) ==
    CASE term.kind = "File" -> evaluate_type_filter(g, "File", term.arg, cancelled)
      [] term.kind = "Folder" -> evaluate_type_filter(g, "Dir", term.arg, cancelled)
      [] term.kind = "Ext" -> evaluate_extension_filter(g, term.arg, cancelled)
      [] term.kind = "Parent" ->
            IF term.arg = <<>> THEN Err
            ELSE evaluate_parent_filter(g, term.arg, cancelled)
      [] term.kind = "InFolder" ->
            IF term.arg = <<>> THEN Err
            ELSE evaluate_infolder_filter(g, term.arg, cancelled)
      [] OTHER -> Err

\* SearchCache::evaluate_term
evaluate_term(g, term, cancelled) ==
    CASE term.kind = "Word" -> evaluate_word(g, term.arg, cancelled)
      [] term.kind = "Phrase" -> evaluate_phrase(g, term.arg, cancelled)
      [] term.kind = "Regex" -> evaluate_regex(g, term.arg[1], cancelled)
      [] OTHER -> evaluate_filter(g, term, cancelled)

\* intersect_in_place that keeps the ids of rhs found in values, in rhs order
intersect_in_place_rhs_order(values, rhs, cancelled) ==
    IF values = <<>> THEN OkSome(values)
    ELSE IF CancelSeenInLoop(Len(values), cancelled) THEN OkNone
    ELSE OkSome(SelectSeq(rhs, LAMBDA x : x \in Range(values)))

\* intersect_in_place: Some(values) or None
intersect_in_place(values, rhs, cancelled) ==
    IF values = <<>> THEN OkSome(values)
    ELSE IF CancelSeenInLoop(Len(values), cancelled) THEN OkNone
    ELSE OkSome(SelectSeq(values, LAMBDA x : x \in Range(rhs)))

\* difference_in_place that keeps the ids rhs holds and drops the others
difference_in_place_kept(values, rhs, cancelled) ==
    IF values = <<>> \/ rhs = <<>> THEN OkSome(values)
    ELSE IF CancelSeenInLoop(Len(values), cancelled) THEN OkNone
    ELSE OkSome(SelectSeq(values, LAMBDA x : x \in Range(rhs)))

\* difference_in_place
difference_in_place(values, rhs, cancelled) ==
    IF values = <<>> \/ rhs = <<>> THEN OkSome(values)
    ELSE IF CancelSeenInLoop(Len(values), cancelled) THEN OkNone
    ELSE OkSome(SelectSeq(values, LAMBDA x : x \notin Range(rhs)))

RECURSIVE push_unseen(_, _)
push_unseen(values, rhs) ==
    IF rhs = <<>> THEN values
    ELSE push_unseen(IF Head(rhs) \in Range(values) THEN values
                     ELSE Append(values, Head(rhs)), Tail(rhs))

\* union_in_place that appends rhs without looking at what values holds
union_in_place_append(values, rhs, cancelled) ==
    IF rhs = <<>> THEN OkSome(values)
    ELSE IF CancelSeenInLoop(Len(rhs), cancelled) THEN OkNone
    ELSE OkSome(values \o rhs)

\* union_in_place
union_in_place(values, rhs, cancelled) ==
    IF rhs = <<>> THEN OkSome(values)
    ELSE IF CancelSeenInLoop(Len(rhs), cancelled) THEN OkNone
    ELSE OkSome(push_unseen(values, rhs))

\* Option<Vec<SlabIndex>> for the running result of evaluate_and
NoCurrent == [has |-> FALSE, nodes |-> <<>>]

Current(nodes) == [has |-> TRUE, nodes |-> nodes]

RECURSIVE evaluate_expr(_, _, _)
RECURSIVE evaluate_and_loop(_, _, _, _, _)
RECURSIVE evaluate_or_loop(_, _, _, _, _)
RECURSIVE evaluate_not(_, _, _, _)

\* SearchCache::evaluate_expr
evaluate_expr(g, expr, cancelled) ==
    CASE expr.tag = "Empty" -> search_empty(g, cancelled)
      [] expr.tag = "Term" -> evaluate_term(g, expr, cancelled)
      [] expr.tag = "Not" -> evaluate_not(g, expr.parts[1], NoCurrent, cancelled)
      [] expr.tag = "And" -> evaluate_and_loop(g, expr.parts, 1, NoCurrent, cancelled)
      [] expr.tag = "Or" -> evaluate_or_loop(g, expr.parts, 1, <<>>, cancelled)

\* SearchCache::evaluate_and, from part i on with the running result current
evaluate_and_loop(g, parts, i, current, cancelled) ==
    IF i > Len(parts) THEN OkSome(current.nodes)
    ELSE IF parts[i].tag = "Not"
    THEN LET x == evaluate_not(g, parts[i].parts[1], current, cancelled) IN
         IF x.kind # "Some" THEN x
         ELSE evaluate_and_loop(g, parts, i + 1, Current(x.nodes), cancelled)
    ELSE LET nodes == evaluate_expr(g, parts[i], cancelled) IN
         IF nodes.kind # "Some" THEN nodes
         ELSE IF ~current.has
         THEN evaluate_and_loop(g, parts, i + 1, Current(nodes.nodes), cancelled)
         ELSE LET existing == intersect_in_place(current.nodes, nodes.nodes, cancelled) IN
              IF existing.kind # "Some" THEN OkNone
              ELSE evaluate_and_loop(g, parts, i + 1, Current(existing.nodes), cancelled)

\* the operands evaluate_and evaluates from part i on: the loop leaves only
\* through an operand that gives None or an error, or a cancelled intersection
RECURSIVE evaluate_and_reached(_, _, _, _, _)
evaluate_and_reached(g, parts, i, current, cancelled) ==
    IF i > Len(parts) THEN {}
    ELSE IF parts[i].tag = "Not"
    THEN LET x == evaluate_not(g, parts[i].parts[1], current, cancelled) IN
         {i} \cup (IF x.kind # "Some" THEN {}
                   ELSE evaluate_and_reached(g, parts, i + 1, Current(x.nodes), cancelled))
    ELSE LET nodes == evaluate_expr(g, parts[i], cancelled) IN
         {i} \cup
         (IF nodes.kind # "Some" THEN {}
          ELSE IF ~current.has
          THEN evaluate_and_reached(g, parts, i + 1, Current(nodes.nodes), cancelled)
          ELSE LET existing == intersect_in_place(current.nodes, nodes.nodes, cancelled) IN
               IF existing.kind # "Some" THEN {}
               ELSE evaluate_and_reached(g, parts, i + 1, Current(existing.nodes),
                                         cancelled))

\* SearchCache::evaluate_or, from part i on with the accumulated result
evaluate_or_loop(g, parts, i, result, cancelled) ==
    IF i > Len(parts) THEN OkSome(result)
    ELSE LET candidate == evaluate_expr(g, parts[i], cancelled) IN
         IF candidate.kind # "Some" THEN candidate
         ELSE LET merged == union_in_place(result, candidate.nodes, cancelled) IN
              IF merged.kind # "Some" THEN OkNone
              ELSE evaluate_or_loop(g, parts, i + 1, merged.nodes, cancelled)

\* evaluate_not that takes every node as its universe, whatever the base
evaluate_not_from_all(g, inner, base, cancelled) ==
    LET universe == search_empty(g, cancelled)
    IN  IF universe.kind # "Some" THEN OkNone
        ELSE LET negated == evaluate_expr(g, inner, cancelled) IN
             IF negated.kind # "Some" THEN negated
             ELSE difference_in_place(universe.nodes, negated.nodes, cancelled)

\* SearchCache::evaluate_not
evaluate_not(g, inner, base, cancelled) ==
    LET universe == IF base.has THEN OkSome(base.nodes)
                    ELSE search_empty(g, cancelled)
    IN  IF universe.kind # "Some" THEN OkNone
        ELSE LET negated == evaluate_expr(g, inner, cancelled) IN
             IF negated.kind # "Some" THEN negated
             ELSE difference_in_place(universe.nodes, negated.nodes, cancelled)

\* the filters that read metadata: date, size and type
is_metadata_filter(expr) ==
    expr.tag = "Term"
        /\ expr.kind \in {"File", "Folder", "Type", "Size", "DateModified", "DateCreated"}

\* the optimizer's pass over an And: the operands that are not metadata
\* filters first, the metadata filters after them, each group in its order
reorder_metadata_filters(parts) ==
    SelectSeq(parts, LAMBDA e : ~is_metadata_filter(e))
        \o SelectSeq(parts, LAMBDA e : is_metadata_filter(e))

\* what the optimizer takes for an empty operand of an Or: Expr::Empty and
\* the empty phrase ""
is_empty_operand(expr) ==
    expr.tag = "Empty" \/ (expr.tag = "Term" /\ expr.kind = "Phrase" /\ expr.arg = <<>>)

\* the optimizer's pass over an Or that collapses only when no operand is left
optimize_or_all_empty(parts) ==
    IF \A i \in DOMAIN parts : is_empty_operand(parts[i]) THEN ExprEmpty
    ELSE ExprOr(parts)

\* the optimizer's pass over an Or: one empty operand makes the Or Empty
optimize_or(parts) ==
    IF \E i \in DOMAIN parts : is_empty_operand(parts[i]) THEN ExprEmpty
    ELSE ExprOr(parts)

\* the optimizer's pass over an And: the Empty operands go, nothing left is
\* Empty, one operand left is that operand
optimize_and(parts) ==
    LET kept == SelectSeq(parts, LAMBDA e : e.tag # "Empty")
    IN  IF kept = <<>> THEN ExprEmpty
        ELSE IF Len(kept) = 1 THEN kept[1]
        ELSE ExprAnd(reorder_metadata_filters(kept))

\* the optimizer, operands first
RECURSIVE optimize(_)
optimize(expr) ==
    CASE expr.tag = "Or" ->
            optimize_or([i \in DOMAIN expr.parts |-> optimize(expr.parts[i])])
      [] expr.tag = "And" ->
            optimize_and([i \in DOMAIN expr.parts |-> optimize(expr.parts[i])])
      [] OTHER -> expr

----------------------------------------------------------------------------
(* The cancellation token *)

\* a token issued by the issuer carries the generation it was issued at
IssuedToken(generation) == [kind |-> "issued", version |-> generation]

\* CancellationToken::noop(): never cancelled
NoopToken == [kind |-> "noop", version |-> 0]

\* is_cancelled with the comparison off by one: the newest token counts as
\* superseded as well
is_cancelled_inclusive(token, active) ==
    token.kind = "issued" /\ active >= token.version

\* CancellationToken::is_cancelled: the issuer's generation has moved past
\* the token's
is_cancelled(token, active) ==
    token.kind = "issued" /\ active > token.version

InitToken ==
    /\ active_version = 0
    /\ tokens = <<>>
    /\ reports = <<>>

\* CancellationToken::new: bump the generation and hand out a token of it
IssueToken ==
    /\ Len(tokens) < MaxTokens
    /\ active_version' = active_version + 1
    /\ tokens' = Append(tokens, IssuedToken(active_version + 1))
    /\ reports' = Append(reports, "unasked")
    /\ UNCHANGED <<hostVars, last_rewrite, processor, poolVars, ingestVars, graphVars, evalVars>>

\* CancellationToken::noop
IssueNoop ==
    /\ Len(tokens) < MaxTokens
    /\ tokens' = Append(tokens, NoopToken)
    /\ reports' = Append(reports, "unasked")
    /\ UNCHANGED <<hostVars, last_rewrite, processor, poolVars, ingestVars, active_version, graphVars, evalVars>>

\* a holder asks its token
AskToken ==
    \E i \in DOMAIN tokens :
        /\ reports' = [reports EXCEPT ![i] =
                          IF is_cancelled(tokens[i], active_version)
                          THEN "cancelled" ELSE "live"]
        /\ UNCHANGED <<hostVars, last_rewrite, processor, poolVars, ingestVars, active_version, tokens, graphVars, evalVars>>

----------------------------------------------------------------------------
(* Queries *)

\* evaluated: for an And, the operands the call evaluated
NoQuery == [active |-> FALSE, expr |-> ExprEmpty, cancelled |-> FALSE,
            evaluated |-> {}]

Idle == [kind |-> "Idle", nodes |-> <<>>]

InitEval ==
    /\ query = NoQuery
    /\ outcome = Idle

\* the operands the explored expressions are built from
Leaves ==
    {ExprEmpty,
     ExprTerm("Word", <<"a">>), ExprTerm("Word", <<"a", "b">>),
     ExprTerm("Word", <<"*">>), ExprTerm("Regex", <<"(">>),
     ExprTerm("File", <<>>), ExprTerm("Folder", <<>>), ExprTerm("Size", <<"1">>),
     ExprTerm("Parent", RootPath), ExprTerm("Parent", RootPath \o <<"a">>),
     ExprTerm("Parent", <<"other">>), ExprTerm("InFolder", RootPath),
     ExprTerm("InFolder", RootPath \o <<"a">>), ExprTerm("InFolder", <<"other">>)}

Operands == Leaves \cup {ExprNot(e) : e \in Leaves}

\* the operands of the conjunctions of three
TripleOperands ==
    {ExprTerm("Word", <<"a">>), ExprTerm("Word", <<"*">>), ExprTerm("File", <<>>),
     ExprTerm("Parent", RootPath), ExprNot(ExprTerm("Word", <<"a">>)),
     ExprNot(ExprTerm("File", <<>>))}

Exprs ==
    Operands
        \cup {ExprAnd(<<x, y>>) : x \in Operands, y \in Operands}
        \cup {ExprAnd(<<x, y, z>>) : x \in TripleOperands, y \in TripleOperands,
                                      z \in TripleOperands}
        \cup {ExprOr(<<x, y>>) : x \in Leaves, y \in Leaves}

\* the operands of the queries as the parser reads them: nothing where an
\* operand is missing, a word, a filter
ParsedOperands ==
    {ExprEmpty, ExprTerm("Word", <<"a">>), ExprTerm("Word", <<"*">>),
     ExprTerm("File", <<>>)}

\* foo||bar, | foo, foo |, a|"" and longer ones
ParsedOrs ==
    {ExprOr(<<x, y>>) : x \in ParsedOperands,
                        y \in ParsedOperands \cup {ExprTerm("Phrase", <<>>)}}
        \cup {ExprOr(<<x, y, z>>) : x \in ParsedOperands, y \in ParsedOperands,
                                     z \in ParsedOperands}

\* foo AND, AND, and Ors among the operands of an And
ParsedAnds ==
    {ExprAnd(<<x, y>>) : x \in ParsedOperands, y \in ParsedOperands}
        \cup {ExprAnd(<<x, y, z>>) : x \in ParsedOperands, y \in ParsedOperands,
                                      z \in ParsedOperands}
        \cup {ExprAnd(<<ExprOr(<<x, y>>), z>>) :
                x \in ParsedOperands, y \in ParsedOperands, z \in ParsedOperands}

ParsedQueries == ParsedOrs \cup ParsedAnds

\* metadata that the walk fetched: the type and the size in bytes
MetadataSome(type, size) == [state |-> "Some", type |-> type, size |-> size]

\* the sizes of the files of the size queries
FileSizes == {0, 1023, 1024, 1025, 10241}

SizedSlots == {MetadataSome("File", size) : size \in FileSizes}
                  \cup {MetadataSome("Dir", 0)}

\* size: with a comparison; the bare size:1kb has no operator
SizeComparisons ==
    {ExprTerm("Size", <<op, t>>) :
        op \in {">", ">=", "<", "<=", "=", "", "!="}, t \in {"1kb", "500"}}

\* size: with a keyword
SizeKeywords ==
    {ExprTerm("Size", <<"keyword", k>>) :
        k \in {"empty", "tiny", "small", "medium", "large", "huge", "gigantic",
               "giant"}}

\* size: and dm: with a range start..end
SizeRanges ==
    {ExprTerm("Size", <<"..", start, end>>) :
        start \in {"1kb", "10kb"}, end \in {"1kb", "10kb"}}

DateRanges ==
    {ExprTerm("DateModified", <<"..", start, end>>) :
        start \in {"2024-01-01", "2024-12-31"}, end \in {"2024-01-01", "2024-12-31"}}

SizeExprs == SizeComparisons \cup SizeKeywords \cup SizeRanges \cup DateRanges

\* ext: with one extension or a list, and the negations of two of them
ExtFilters ==
    {ExprTerm("Ext", arg) :
        arg \in {<<"txt">>, <<"TXT">>, <<".txt">>, <<" gz ">>, <<"gz", "txt">>,
                 <<"tar.gz">>, <<".">>, <<>>}}

ExtExprs == ExtFilters \cup {ExprNot(e) : e \in ExtFilters}

----------------------------------------------------------------------------
(* Change ingest: SearchCache::handle_fs_events, rescan *)

PathA == RootPath \o <<"a">>

PathB == RootPath \o <<"b">>

PathAB == RootPath \o <<"a", "b">>

\* a path that is not beneath the indexed root
PathOutside == <<"other">>

\* flags after which the cache cannot be trusted
RescanFlags == {"MustScanSubDirs", "KernelDropped", "UserDropped", "RootChanged"}

MountFlags == {"Mount", "Unmount"}

\* flags that only invalidate the metadata of the node
ModifyFlags == {"Modified", "InodeModified", "XAttrModified", "OwnerModified"}

FsEvent(path, id, flags) == [path |-> path, id |-> id, flags |-> flags]

\* the event asks for a rescan: one of RescanFlags, or a mount or unmount at
\* or beneath the indexed root
should_rescan(e) ==
    \/ e.flags \cap RescanFlags # {}
    \/ e.flags \cap MountFlags # {} /\ StartsWith(e.path, RootPath)

\* insert the components missing below parent: the ancestors as directories
\* with no metadata, the last component with the slot leaf
RECURSIVE ensure_path(_, _, _, _)
ensure_path(g, parent, comps, leaf) ==
    IF comps = <<>> THEN g
    ELSE LET m == ChildNamed(g, parent, Head(comps)) IN
         IF m # {} THEN ensure_path(g, CHOOSE c \in m : TRUE, Tail(comps), leaf)
         ELSE LET r == insert_child(g, parent, Head(comps),
                           IF Len(comps) = 1 THEN leaf ELSE MetadataNone("Dir"))
              IN ensure_path(r.g, r.id, Tail(comps), leaf)

\* a creation: a path outside the root, or one the graph already holds, is
\* left alone
create_path(g, path) ==
    IF \/ ~StartsWith(path, RootPath)
       \/ ~Present(g, g.root)
       \/ node_index_for_raw_path(g, path) # OptionSlabIndex_none
    THEN g
    ELSE ensure_path(g, g.root, SubSeq(path, Len(RootPath) + 1, Len(path)),
                     MetadataNone("File"))

\* a removal that unlinks the node of the path and leaves its descendants
remove_path_shallow(g, path) ==
    LET n == node_index_for_raw_path(g, path) IN
    IF n = OptionSlabIndex_none THEN g ELSE remove_single(g, n)

\* a removal: the node of the path and its subtree
remove_path(g, path) ==
    LET n == node_index_for_raw_path(g, path) IN
    IF n = OptionSlabIndex_none THEN g ELSE remove(g, n).g

\* a metadata change: the slot of the node goes back to None
invalidate_path(g, path) ==
    LET n == node_index_for_raw_path(g, path) IN
    IF n = OptionSlabIndex_none THEN g
    ELSE [g EXCEPT !.nodes[n].metadata.state = "None"]

\* a rename that gives the node its new name and leaves the name index as
\* it was
rename_path_unindexed(g, old, new) ==
    LET n == node_index_for_raw_path(g, old) IN
    IF n = OptionSlabIndex_none THEN g
    ELSE [g EXCEPT !.nodes[n].name = new[Len(new)]]

\* both halves of a rename: rename(old, new) on the node of old; a failure of
\* the graph operation is swallowed
rename_path(g, old, new) ==
    LET n == node_index_for_raw_path(g, old) IN
    IF n = OptionSlabIndex_none THEN g
    ELSE rename(g, n, new[Len(new)]).g

\* a half whose partner never came: a removal if the path is in the graph,
\* a creation otherwise
resolve_half(g, path) ==
    IF node_index_for_raw_path(g, path) # OptionSlabIndex_none
    THEN remove_path(g, path)
    ELSE create_path(g, path)

\* the pairing window closes: every pending half is resolved, oldest first
RECURSIVE close_window(_, _)
close_window(g, window) ==
    IF window = <<>> THEN g
    ELSE close_window(resolve_half(g, Head(window).path), Tail(window))

\* one event against the graph and the pairing window
apply_event(st, e) ==
    LET renamed == "Renamed" \in e.flags
        mates == {i \in DOMAIN st.window : st.window[i].id = e.id}
        g1 == IF "Removed" \in e.flags THEN remove_path(st.g, e.path) ELSE st.g
        g2 == IF renamed /\ mates # {}
              THEN rename_path(g1, st.window[CHOOSE i \in mates : TRUE].path, e.path)
              ELSE g1
        w2 == IF ~renamed THEN st.window
              ELSE IF mates # {}
                   THEN SelectSeq(st.window, LAMBDA h : h.id # e.id)
                   ELSE Append(st.window, [id |-> e.id, path |-> e.path])
        g3 == IF "Created" \in e.flags THEN create_path(g2, e.path) ELSE g2
        g4 == IF e.flags \cap ModifyFlags # {} THEN invalidate_path(g3, e.path)
              ELSE g3
    IN [st EXCEPT !.g = g4, !.window = w2]

\* an event loop that notes the rescan and goes on with the rest of the batch
RECURSIVE events_loop_through(_, _, _)
events_loop_through(st, events, i) ==
    IF i > Len(events) THEN st
    ELSE IF should_rescan(events[i])
         THEN events_loop_through([st EXCEPT !.result = "Rescan"], events, i + 1)
         ELSE events_loop_through(apply_event(st, events[i]), events, i + 1)

\* the events of the batch in order; the first one that asks for a rescan
\* ends the batch
RECURSIVE events_loop(_, _, _)
events_loop(st, events, i) ==
    IF i > Len(events) THEN st
    ELSE IF should_rescan(events[i]) THEN [st EXCEPT !.result = "Rescan"]
         ELSE events_loop(apply_event(st, events[i]), events, i + 1)

\* handle_fs_events that moves the cursor also when the batch ends in Rescan
handle_fs_events_always_advance(g, window, cursor, events) ==
    LET st == events_loop([g |-> close_window(g, window), window |-> <<>>,
                           result |-> "Ok"], events, 1)
    IN [g |-> st.g, window |-> st.window, result |-> st.result,
        cursor |-> Max({cursor} \cup {events[i].id : i \in DOMAIN events})]

\* handle_fs_events(batch): a half left from an earlier batch is resolved
\* first; the events are applied; then the cursor moves to the largest id
handle_fs_events(g, window, cursor, events) ==
    LET st == events_loop([g |-> close_window(g, window), window |-> <<>>,
                           result |-> "Ok"], events, 1)
    IN [g |-> st.g, window |-> st.window, result |-> st.result,
        cursor |-> IF st.result = "Ok"
                   THEN Max({cursor} \cup {events[i].id : i \in DOMAIN events})
                   ELSE cursor]

\* ensure_metadata that asks the OS again whatever the slot holds
ensure_metadata_refetch(g, n, stat_ok) ==
    [g EXCEPT !.nodes[n].metadata.state =
                  IF stat_ok THEN "Some" ELSE "Unaccessible"]

\* ensure_metadata(node): a slot that is None is filled from lstat, Some when
\* the call succeeds and Unaccessible when it fails; any other slot is left
ensure_metadata(g, n, stat_ok) ==
    IF g.nodes[n].metadata.state # "None" THEN g
    ELSE [g EXCEPT !.nodes[n].metadata.state =
                       IF stat_ok THEN "Some" ELSE "Unaccessible"]

\* the graph a walk of the root builds from the paths it finds
RECURSIVE walk_graph(_, _)
walk_graph(g, paths) ==
    IF paths = <<>> THEN g ELSE walk_graph(create_path(g, Head(paths)), Tail(paths))

----------------------------------------------------------------------------
(* The name pool (namepool/src/lib.rs) *)

\* the bytes of a name: a and b; NUL separates the names in the pool
NUL == 0

\* the names that are pushed and searched for: "", a, aa, ab, ba
PoolNames == {<<>>, <<1>>, <<1, 1>>, <<1, 2>>, <<2, 1>>}

\* NamePool::new
NamePool_new == <<NUL>>

\* NamePool::len
NamePool_len(p) == Len(p)

\* NamePool::push: the pool afterwards and the offset it returns
NamePool_push(p, name) == [pool |-> p \o name \o <<NUL>>, start |-> Len(p)]

Min(S) == CHOOSE x \in S : \A y \in S : x <= y

\* the byte at a zero-based offset
byte_at(p, offset) == p[offset + 1]

\* the zero-based slice p[from..to]
slice(p, from, to) == SubSeq(p, from + 1, to)

\* NamePool::get in a build without debug assertions: the offset of the NUL
\* that ends the name around offset, and that name
NamePool_get(p, offset) ==
    LET before == {i \in 0..(offset - 1) : byte_at(p, i) = NUL}
        after == {j \in offset..(Len(p) - 1) : byte_at(p, j) = NUL}
        begin == IF before = {} THEN 0 ELSE Max(before) + 1
        end == IF after = {} THEN Len(p) ELSE Min(after)
    IN  [end |-> end, name |-> slice(p, begin, end)]

\* memchr::memmem::find_iter from position pos on: the leftmost matches that
\* do not overlap, and every position up to the length for the empty needle
RECURSIVE find_iter_from(_, _, _)
find_iter_from(haystack, needle, pos) ==
    IF pos + Len(needle) > Len(haystack) THEN <<>>
    ELSE IF slice(haystack, pos, pos + Len(needle)) = needle
         THEN <<pos>> \o find_iter_from(haystack, needle,
                                        pos + (IF needle = <<>> THEN 1 ELSE Len(needle)))
         ELSE find_iter_from(haystack, needle, pos + 1)

find_iter(haystack, needle) == find_iter_from(haystack, needle, 0)

\* Itertools::dedup_by on the end offsets: runs of equal ends keep their first
RECURSIVE dedup_by_end(_)
dedup_by_end(entries) ==
    IF Len(entries) <= 1 THEN entries
    ELSE IF entries[1].end = entries[2].end
         THEN dedup_by_end(<<entries[1]>> \o Tail(Tail(entries)))
         ELSE <<entries[1]>> \o dedup_by_end(Tail(entries))

names_of(entries) == [i \in DOMAIN entries |-> entries[i].name]

\* the answer of a search: the names, or the panic of a failed assertion
Names_found(names) == [panicked |-> FALSE, names |-> names]

Search_panicked == [panicked |-> TRUE, names |-> <<>>]

\* whether get's debug_assert!(offset < pool.len()) fails on one of the hits
get_asserts(p, hits, debug_assertions) ==
    debug_assertions /\ \E i \in DOMAIN hits : hits[i] >= Len(p)

\* search_substr without its dedup_by
search_substr_every_hit(p, substr, debug_assertions) ==
    LET hits == find_iter(p, substr)
    IN  IF get_asserts(p, hits, debug_assertions) THEN Search_panicked
        ELSE Names_found(names_of([i \in DOMAIN hits |-> NamePool_get(p, hits[i])]))

\* NamePool::search_substr
search_substr(p, substr, debug_assertions) ==
    LET hits == find_iter(p, substr)
    IN  IF get_asserts(p, hits, debug_assertions) THEN Search_panicked
        ELSE Names_found(names_of(dedup_by_end(
                 [i \in DOMAIN hits |-> NamePool_get(p, hits[i])])))

\* NamePool::search_subslice
search_subslice(p, subslice, debug_assertions) ==
    LET hits == find_iter(p, subslice)
    IN  IF get_asserts(p, hits, debug_assertions) THEN Search_panicked
        ELSE Names_found(names_of(dedup_by_end(
                 [i \in DOMAIN hits |-> NamePool_get(p, hits[i])])))

\* NamePool::search_exact
search_exact(p, exact, debug_assertions) ==
    LET hits == find_iter(p, exact)
        ends == [i \in DOMAIN hits |-> hits[i] + Len(exact) - 1]
    IN  IF exact = <<>> \/ Head(exact) # NUL \/ exact[Len(exact)] # NUL
            \/ get_asserts(p, ends, debug_assertions)
        THEN Search_panicked
        ELSE Names_found([i \in DOMAIN ends |-> NamePool_get(p, ends[i]).name])

\* the entries one chunk of par_search_substr finds: the chunk starts at i
chunk_entries(p, substr, chunk_size, i) ==
    LET search_end == IF i + chunk_size < Len(p) THEN i + chunk_size ELSE Len(p)
        read_end == IF search_end + Len(substr) - 1 < Len(p)
                    THEN search_end + Len(substr) - 1 ELSE Len(p)
        hits == find_iter(slice(p, i, read_end), substr)
    IN  {NamePool_get(p, i + hits[k]) : k \in {k \in DOMAIN hits : i + hits[k] < search_end}}

\* BTreeMap::into_values: the names in the order of their keys, the ends
RECURSIVE into_values(_)
into_values(entries) ==
    IF entries = {} THEN <<>>
    ELSE LET first == CHOOSE e \in entries : \A f \in entries : e.end <= f.end
         IN  <<first.name>> \o into_values({e \in entries : e.end # first.end})

\* NamePool::par_search_substr with the pool cut into chunks of chunk_size
par_search_substr(p, substr, chunk_size) ==
    IF Len(p) = 0 \/ substr = <<>> THEN Names_found(<<>>)
    ELSE Names_found(into_values(UNION {chunk_entries(p, substr, chunk_size, i) :
                                     i \in {i \in 0..(Len(p) - 1) : i % chunk_size = 0}}))

\* (0..pool_len).step_by(chunk_size): the offsets the chunks start at
chunk_starts(p, chunk_size) == {i \in 0..(Len(p) - 1) : i % chunk_size = 0}

\* what the five closures begin with: the end of the chunk that starts at i,
\* and the pool offsets i + x of the hits of find_iter in pool[i..read_end]
chunk_hits(p, needle, chunk_size, i) ==
    LET search_end == IF i + chunk_size < Len(p) THEN i + chunk_size ELSE Len(p)
        read_end == IF search_end + Len(needle) - 1 < Len(p)
                    THEN search_end + Len(needle) - 1 ELSE Len(p)
        hits == find_iter(slice(p, i, read_end), needle)
    IN  [search_end |-> search_end, hits |-> [k \in DOMAIN hits |-> i + hits[k]]]

\* the entries one chunk of par_search_subslice collects
subslice_chunk(p, subslice, chunk_size, i) ==
    LET hits == chunk_hits(p, subslice, chunk_size, i).hits
    IN  Range(dedup_by_end([k \in DOMAIN hits |-> NamePool_get(p, hits[k])]))

\* NamePool::par_search_subslice with the pool cut into chunks of chunk_size
par_search_subslice(p, subslice, chunk_size) ==
    IF Len(p) = 0 \/ subslice = <<>> THEN Names_found(<<>>)
    ELSE Names_found(into_values(UNION {subslice_chunk(p, subslice, chunk_size, i) :
                                     i \in chunk_starts(p, chunk_size)}))

\* CStr::to_bytes_with_nul
to_bytes_with_nul(cstr) == cstr \o <<NUL>>

\* NamePool::par_search_suffix: the chunks collect as those of
\* par_search_subslice do, with the suffix and its NUL for the needle
par_search_suffix(p, suffix, chunk_size) ==
    LET suffix_bytes == to_bytes_with_nul(suffix)
    IN  IF Len(p) = 0 \/ suffix_bytes = <<>> THEN Names_found(<<>>)
        ELSE Names_found(into_values(
                 UNION {subslice_chunk(p, suffix_bytes, chunk_size, i) :
                        i \in chunk_starts(p, chunk_size)}))

\* the entries one chunk of par_search_prefix collects: get is asked for the
\* last byte of the hit
prefix_chunk(p, prefix, chunk_size, i) ==
    LET hits == chunk_hits(p, prefix, chunk_size, i).hits
    IN  Range(dedup_by_end([k \in DOMAIN hits |->
                               NamePool_get(p, hits[k] + Len(prefix) - 1)]))

\* NamePool::par_search_prefix with the pool cut into chunks of chunk_size
par_search_prefix(p, prefix, chunk_size) ==
    IF prefix = <<>> \/ Head(prefix) # NUL THEN Search_panicked
    ELSE IF Len(p) = 0 THEN Names_found(<<>>)
    ELSE Names_found(into_values(UNION {prefix_chunk(p, prefix, chunk_size, i) :
                                     i \in chunk_starts(p, chunk_size)}))

\* the entries one chunk of par_search_exact collects: no dedup_by
exact_chunk(p, exact, chunk_size, i) ==
    LET hits == chunk_hits(p, exact, chunk_size, i).hits
    IN  {NamePool_get(p, hits[k] + Len(exact) - 1) : k \in DOMAIN hits}

\* NamePool::par_search_exact with the pool cut into chunks of chunk_size
par_search_exact(p, exact, chunk_size) ==
    IF exact = <<>> \/ Head(exact) # NUL \/ exact[Len(exact)] # NUL
    THEN Search_panicked
    ELSE IF Len(p) = 0 THEN Names_found(<<>>)
    ELSE Names_found(into_values(UNION {exact_chunk(p, exact, chunk_size, i) :
                                     i \in chunk_starts(p, chunk_size)}))

\* ghost: the hits the chunks hand to get, each with its chunk; filtered
\* tells whether the closure has the filter of par_search_substr
chunk_reports(p, needle, chunk_size, filtered) ==
    UNION {LET c == chunk_hits(p, needle, chunk_size, i)
           IN  {[chunk |-> i, search_end |-> c.search_end, start |-> c.hits[k]] :
                k \in {k \in DOMAIN c.hits : ~filtered \/ c.hits[k] < c.search_end}} :
           i \in chunk_starts(p, chunk_size)}

----------------------------------------------------------------------------
(* The persistent cache: serde of the slab and its nodes *)

\* the keys of a set, smallest first
RECURSIVE ascending(_)
ascending(keys) ==
    IF keys = {} THEN <<>> ELSE <<Min(keys)>> \o ascending(keys \ {Min(keys)})

\* Serialize for NameAndParent: the tuple (name, parent)
NameAndParent_serialize(node) == <<node.name, node.parent>>

\* NameAndParentVisitor::visit_seq: the name goes back into the name pool
NameAndParent_deserialize(pair) == [name |-> pair[1], parent |-> pair[2]]

\* the derived Serialize of SlabNode: its fields in their order
SlabNode_serialize(node) ==
    <<NameAndParent_serialize(node), node.children, node.metadata>>

\* the derived Deserialize of SlabNode
SlabNode_deserialize(fields) ==
    LET name_and_parent == NameAndParent_deserialize(fields[1])
    IN  [present |-> TRUE, name |-> name_and_parent.name,
         parent |-> name_and_parent.parent,
         children |-> fields[2], metadata |-> fields[3]]

\* Slab::serialize: a map with one (key, value) entry for each occupied key
Slab_serialize(nodes) ==
    LET keys == ascending({k \in DOMAIN nodes : nodes[k].present})
    IN  [i \in DOMAIN keys |-> <<keys[i], SlabNode_serialize(nodes[keys[i]])>>]

\* Builder::pair: the value goes to its key; the keys skipped on the way
\* become vacant entries
Builder_pair(entries, key, value) ==
    [k \in (DOMAIN entries) \cup (0..key) |->
        IF k = key THEN value
        ELSE IF k \in DOMAIN entries THEN entries[k] ELSE Vacant]

\* Builder::build: the entries, and the vacant keys chained smallest first
Builder_build(entries) ==
    [nodes |-> entries,
     free |-> ascending({k \in DOMAIN entries : ~entries[k].present})]

RECURSIVE visit_entries(_, _)
visit_entries(entries, pairs) ==
    IF pairs = <<>> THEN entries
    ELSE visit_entries(Builder_pair(entries, Head(pairs)[1],
                                    SlabNode_deserialize(Head(pairs)[2])),
                       Tail(pairs))

\* a load that packs the values into the keys 0, 1, ... in their order
Slab_deserialize_packed(pairs) ==
    Builder_build([k \in 0..(Len(pairs) - 1) |-> SlabNode_deserialize(pairs[k + 1][2])])

\* SlabVisitor::visit_map: every entry is handed to the builder under its key
Slab_deserialize(pairs) == Builder_build(visit_entries(<<>>, pairs))

\* name_index rebuilt from the loaded nodes, in key order
rebuild_name_index(nodes) ==
    [name \in AllNames |->
        ascending({k \in DOMAIN nodes : nodes[k].present /\ nodes[k].name = name})]

\* flush_to_file, then try_read_persistent_cache of what was written
persistent_roundtrip(g) ==
    LET loaded == Slab_deserialize(Slab_serialize(g.nodes))
    IN  Graph(loaded.nodes, loaded.free, g.root, rebuild_name_index(loaded.nodes))

----------------------------------------------------------------------------
(* The fs event processor (src/processor.rs) *)

\* DiskEntry::merge: unimplemented!() panics whatever the event is
DiskEntry_merge(fs_entry, event) == [panicked |-> TRUE, fs_entry |-> fs_entry]

\* Database::merge
Database_merge(database, event) == DiskEntry_merge(database, event)

\* PartialDatabase::merge
PartialDatabase_merge(partial_db, event) == DiskEntry_merge(partial_db, event)

\* Processor::fill_fs_event: a full pipe drops its oldest event first
fill_fs_event(limited_fs_events, event) ==
    IF Len(limited_fs_events) < FS_EVENTS_CHANNEL_LEN
    THEN Append(limited_fs_events, event)
    ELSE Append(Tail(limited_fs_events), event)

\* Processor::new: no database yet, nothing received; the tree is the set of
\* the events merged into it
Processor_new ==
    [events_receiver |-> <<>>, limited_fs_events |-> <<>>,
     database |-> [open |-> FALSE, fs_entry |-> {}],
     thread |-> "Created", result |-> "None",
     close_result |-> "None", into_fs |-> 0]

\* Processor::close: the database is taken out of its Option and saved;
\* into_fs counts the calls of Database::into_fs
close(p, into_fs_ok) ==
    IF ~p.database.open
    THEN [p EXCEPT !.close_result = "Err"]
    ELSE [p EXCEPT !.database.open = FALSE,
                   !.into_fs = @ + 1,
                   !.close_result = IF into_fs_ok THEN "Ok" ELSE "Err"]

\* Processor::process_event on the event at the head of the system channel
process_event(p) ==
    LET event == Head(p.events_receiver)
        received == [p EXCEPT !.events_receiver = Tail(@)]
        merged == Database_merge(p.database.fs_entry, event)
    IN  IF ~p.database.open
        THEN [received EXCEPT !.result = "Err", !.thread = "Down"]
        ELSE IF merged.panicked
        THEN [received EXCEPT !.result = "Panicked", !.thread = "Panicked"]
        ELSE [received EXCEPT !.database.fs_entry = merged.fs_entry,
                              !.limited_fs_events = fill_fs_event(@, event),
                              !.result = "Ok"]

\* Processor::get_db: the database file, else a scan and the merge of the
\* events that came in meanwhile
get_db(p, from_fs_ok) ==
    IF from_fs_ok \/ p.events_receiver = <<>>
    THEN [p EXCEPT !.database = [open |-> TRUE, fs_entry |-> {}]]
    ELSE LET merged == PartialDatabase_merge({}, Head(p.events_receiver))
         IN  IF merged.panicked
             THEN [p EXCEPT !.events_receiver = Tail(@), !.result = "Panicked",
                            !.thread = "Panicked"]
             ELSE [p EXCEPT !.events_receiver = <<>>,
                            !.database = [open |-> TRUE, fs_entry |-> merged.fs_entry]]

----------------------------------------------------------------------------
(* The display pipe of the processor (src/processor.rs) *)

\* Sender::try_send on a channel::bounded(capacity)
try_send(channel, capacity, event) ==
    IF Len(channel) < capacity
    THEN [ok |-> TRUE, channel |-> Append(channel, event)]
    ELSE [ok |-> FALSE, channel |-> channel]

\* a try_recv that hands out the newest message
try_recv_newest(channel) ==
    IF channel = <<>> THEN [ok |-> FALSE, event |-> 0, channel |-> channel]
    ELSE [ok |-> TRUE, event |-> channel[Len(channel)],
          channel |-> SubSeq(channel, 1, Len(channel) - 1)]

\* Receiver::try_recv: the oldest message, Err(Empty) when there is none
try_recv(channel) ==
    IF channel = <<>> THEN [ok |-> FALSE, event |-> 0, channel |-> channel]
    ELSE [ok |-> TRUE, event |-> Head(channel), channel |-> Tail(channel)]

\* limited_fs_events: the pipe; arrived: the events handed to fill_fs_event
\* so far, numbered as they arrive; fill and take: the calls in progress;
\* dropped: the events fill_fs_event discarded; lost: those take_fs_events
\* received and did not return; provided: what the last take returned
NoDisplay ==
    [limited_fs_events |-> <<>>, arrived |-> 0,
     fill |-> [pc |-> "idle", event |-> 0, sends |-> 0],
     take |-> [pc |-> "idle", max_take_num |-> 0, fs_events |-> <<>>],
     dropped |-> <<>>, lost |-> <<>>, provided |-> <<>>]

InitDisplay == display = NoDisplay

----------------------------------------------------------------------------
(* The background thread of the shells (lsf/src/main.rs, src-tauri/src/lib.rs) *)

\* the flags of the one event of a batch
BatchFlags ==
    {{"Created"}, {"HistoryDone"}, {"HistoryDone", "IsDir"}, {"RootChanged"}}

\* EventWatcher::spawn: a thread with its stream that reports what happens
\* after since_event_id; the caller gets the receiver and the token
EventWatcher_spawn(w, since_event_id) ==
    [w EXCEPT !.streams = Append(@, [since |-> since_event_id, next |-> since_event_id + 1,
                                     running |-> TRUE, receiver |-> TRUE,
                                     token |-> TRUE, channel |-> <<>>]),
              !.event_watcher = Len(w.streams) + 1]

\* what dropping an EventWatcher does: the receiver goes, with the batches
\* still in the channel, and the token's sender goes
EventWatcher_drop(w) ==
    IF w.event_watcher = 0 THEN w
    ELSE [w EXCEPT !.streams[w.event_watcher].receiver = FALSE,
                   !.streams[w.event_watcher].token = FALSE,
                   !.streams[w.event_watcher].channel = <<>>]

\* an EventWatcher::clear that leaves the watcher in its place
EventWatcher_clear_later(w) == w

\* EventWatcher::clear: the watcher is replaced by noop() and dropped
EventWatcher_clear(w) == [EventWatcher_drop(w) EXCEPT !.event_watcher = 0]

\* x.flag == EventFlag::HistoryDone
is_history_done(event) == event.flags = {"HistoryDone"}

\* the LazyCell emit_init: its closure runs at the first dereference
emit_init(w) ==
    IF w.emit_init THEN w
    ELSE [w EXCEPT !.emit_init = TRUE, !.init_completed = @ + 1]

\* SearchCache::handle_fs_events on the cache of the worker: the batch is
\* applied; Rescan leaves the change cursor where it is
cache_handle_fs_events(cache, batch) ==
    LET rescan == \E i \in DOMAIN batch.events : should_rescan(batch.events[i])
    IN  [result |-> IF rescan THEN "Rescan" ELSE "Ok",
         cache |-> [cache EXCEPT
                       !.applied = Append(@, [serial |-> batch.serial, gen |-> batch.gen,
                                              rescans |-> cache.rescans]),
                       !.last_event_id =
                           IF rescan THEN @
                           ELSE Max({@} \cup {batch.events[i].id : i \in DOMAIN batch.events})]]

\* the recv(finish_rx) arm that does not leave the loop
worker_finish_stay(w) ==
    [w EXCEPT !.finish_rx = Tail(@), !.cache.owner = "cache_tx",
              !.handed = w.cache.applied]

\* the recv(finish_rx) arm: the cache goes into cache_tx, break, and the
\* thread's watcher and channel ends are dropped
worker_finish(w) ==
    [EventWatcher_drop(w) EXCEPT !.finish_rx = Tail(@), !.cache.owner = "cache_tx",
                                 !.handed = w.cache.applied, !.pc = "exited"]

\* pc: where the background thread is; cache: the SearchCache, whole unless a
\* rescan is rebuilding it; streams: the watcher threads spawned so far;
\* event_watcher: the one the thread holds, 0 for noop(); received: the flags
\* of the batches the thread received; handed: what was applied at hand-off;
\* commands: the search commands, what each asked and got
NoWorker ==
    [pc |-> "init", loaded |-> FALSE,
     cache |-> [owner |-> "worker", applied |-> <<>>, last_event_id |-> 0,
                whole |-> TRUE, rescans |-> 0],
     streams |-> <<>>, event_watcher |-> 0, batches |-> 0,
     emit_init |-> FALSE, init_completed |-> 0, received |-> <<>>,
     finish_rx |-> <<>>, main |-> "running", cache_file |-> <<>>, handed |-> <<>>,
     search_rx |-> <<>>, result_rx |-> <<>>, commands |-> <<>>, answered |-> <<>>]

InitWorker == worker = NoWorker

----------------------------------------------------------------------------
(* The walk of fswalk (fswalk/src/lib.rs) *)

\* the directories of the walked tree: r holds the file f and the directory
\* d, d holds the file g
WalkDirs == {"r", "d"}

read_dir_entries(dir) == IF dir = "r" THEN <<"f", "d">> ELSE <<"g">>

None == [some |-> FALSE]

\* Node { children, name }
WalkNode(name, children) == [some |-> TRUE, name |-> name, children |-> children]

\* faults: how often path.metadata(), fs::read_dir and the reading of an
\* entry still fail with Interrupted on each directory; read_dirs: the
\* fs::read_dir calls made on each directory
WalkData_new(ignore_directory, faults) ==
    [ignore_directory |-> ignore_directory, faults |-> faults,
     num_files |-> 0, num_dirs |-> 0, read_dirs |-> [dir \in WalkDirs |-> 0]]

\* walk returns the node and leaves walk_data changed
RECURSIVE walk(_, _)
RECURSIVE walk_entries(_, _, _, _, _)

\* the filter_map of walk over the entries from the i-th on; failed tells
\* whether the reading yields an Err(Interrupted) after them
walk_entries(path, entries, i, failed, walk_data) ==
    IF i > Len(entries)
    THEN IF failed
         THEN LET again == walk(path, walk_data)
              IN  [children |-> IF again.node.some THEN <<again.node>> ELSE <<>>,
                   walk_data |-> again.walk_data]
         ELSE [children |-> <<>>, walk_data |-> walk_data]
    ELSE LET entry == entries[i]
             this == IF entry \in WalkDirs
                     THEN walk(entry, walk_data)
                     ELSE [node |-> WalkNode(entry, <<>>),
                           walk_data |-> [walk_data EXCEPT !.num_files = @ + 1]]
             rest == walk_entries(path, entries, i + 1, failed, this.walk_data)
         IN  [children |-> IF this.node.some THEN <<this.node>> \o rest.children
                           ELSE rest.children,
              walk_data |-> rest.walk_data]

walk(path, walk_data) ==
    IF walk_data.ignore_directory = path THEN [node |-> None, walk_data |-> walk_data]
    ELSE
    LET metadata_faults == walk_data.faults.metadata[path]
        \* Interrupted: path.metadata().ok() is the one retry
        is_dir == metadata_faults < 2
        stat == [walk_data EXCEPT !.faults.metadata[path] = @ - Min({@, 2})]
    IN  IF ~is_dir
        THEN [node |-> WalkNode(path, <<>>),
              walk_data |-> [stat EXCEPT !.num_files = @ + 1]]
        ELSE LET counted == [stat EXCEPT !.num_dirs = @ + 1, !.read_dirs[path] = @ + 1]
             IN  IF counted.faults.read_dir[path] > 0
                 THEN walk(path, [counted EXCEPT !.faults.read_dir[path] = @ - 1])
                 ELSE LET failed == counted.faults.entry[path] > 0
                          read == [counted EXCEPT
                                      !.faults.entry[path] = IF failed THEN @ - 1 ELSE @]
                          walked == walk_entries(path, read_dir_entries(path), 1, failed, read)
                      IN  [node |-> WalkNode(path, walked.children),
                           walk_data |-> walked.walk_data]

\* walk_it
walk_it(dir, walk_data) == walk(dir, walk_data)

InitWalker == walker = [walked |-> FALSE]

----------------------------------------------------------------------------
(* The parallel visitors of the sdk's scan (cardinal-sdk/src/fs_visitor.rs) *)

\* VisitorBuilder::build: a visitor with an empty buffer and a clone of the sender
Visitor_build == [alive |-> TRUE, buffer |-> <<>>]

\* Visitor::visit: an entry that converts goes into the buffer, and a buffer
\* of a chunk's length goes into the channel
Visitor_visit(v, visitor, entry, converts) ==
    IF ~converts THEN v
    ELSE LET buffer == Append(v.visitors[visitor].buffer, entry)
         IN  IF Len(buffer) >= ChunkLen
             THEN [v EXCEPT !.visitors[visitor].buffer = <<>>,
                            !.raw_entry_receiver = Append(@, buffer),
                            !.converted = @ \cup {entry}]
             ELSE [v EXCEPT !.visitors[visitor].buffer = buffer,
                            !.converted = @ \cup {entry}]

\* two visitors, as build_parallel with two threads makes them; entries: the
\* entries handed out so far; converted: those entry_to_raw was Ok for;
\* inserted: those the inserting loop received
NoVisitors ==
    [visitors |-> <<Visitor_build, Visitor_build>>, raw_entry_receiver |-> <<>>,
     entries |-> 0, converted |-> {}, inserted |-> {}, walking |-> TRUE]

InitVisitors == visitors = NoVisitors

----------------------------------------------------------------------------
(* Home expansion (query_preprocessor.rs) *)

\* a filter without an argument
NoArgument == [some |-> FALSE, raw |-> <<>>, kind |-> "Bare", values |-> <<>>]

\* FilterArgument: raw and the parsed kind; values holds the items of a List,
\* the start and end of a Range, the value of a Comparison
FilterArgument(raw, kind, values) ==
    [some |-> TRUE, raw |-> raw, kind |-> kind, values |-> values]

\* an Option<String>
NoText == [some |-> FALSE, text |-> <<>>]

SomeText(text) == [some |-> TRUE, text |-> text]

\* expand_home_prefix that expands whatever starts with ~
expand_home_prefix_any_tilde(value, home) ==
    IF value = <<>> \/ Head(value) # "~" THEN NoText
    ELSE SomeText(home \o Tail(value))

\* expand_home_prefix: Some for ~ alone and for ~/ and ~\ prefixes
expand_home_prefix(value, home) ==
    IF value = <<>> \/ Head(value) # "~" THEN NoText
    ELSE LET remainder == Tail(value) IN
         IF remainder = <<>> THEN SomeText(home)
         ELSE IF Head(remainder) \in {"/", "\\"} THEN SomeText(home \o remainder)
         ELSE NoText

\* expand_text
expand_text(value, home) ==
    LET expanded == expand_home_prefix(value, home)
    IN  IF expanded.some THEN expanded.text ELSE value

\* the expansion of an Option<String> in place, as expand_range does it
expand_option(bound, home) ==
    IF bound.some /\ expand_home_prefix(bound.text, home).some
    THEN expand_home_prefix(bound.text, home)
    ELSE bound

\* expand_range
expand_range(range, home) == [i \in DOMAIN range |-> expand_option(range[i], home)]

\* expand_comparison
expand_comparison(value, home) == <<expand_text(value[1], home)>>

\* expand_filter_argument
expand_filter_argument(argument, home) ==
    [argument EXCEPT
        !.raw = expand_text(@, home),
        !.values =
            CASE argument.kind \in {"Bare", "Phrase"} -> @
              [] argument.kind = "List" -> [i \in DOMAIN @ |-> expand_text(@[i], home)]
              [] argument.kind = "Range" -> expand_range(@, home)
              [] argument.kind = "Comparison" -> expand_comparison(@, home)]

\* filter_requires_path
filter_requires_path(kind) == kind \in {"Parent", "InFolder", "NoSubfolders"}

\* expand_filter
expand_filter(filter, home) ==
    IF filter_requires_path(filter.kind) /\ filter.arg.some
    THEN [filter EXCEPT !.arg = expand_filter_argument(@, home)]
    ELSE filter

\* expand_term
expand_term(term, home) ==
    CASE term.kind = "Word" -> [term EXCEPT !.arg = expand_text(@, home)]
      [] term.kind \in {"Phrase", "Regex"} -> term
      [] OTHER -> expand_filter(term, home)

\* expand_expr
RECURSIVE expand_expr(_, _)
expand_expr(expr, home) ==
    CASE expr.tag = "Empty" -> ExprEmpty
      [] expr.tag = "Term" -> expand_term(expr, home)
      [] expr.tag = "Not" -> ExprNot(expand_expr(expr.parts[1], home))
      [] expr.tag = "And" ->
            ExprAnd([i \in DOMAIN expr.parts |-> expand_expr(expr.parts[i], home)])
      [] expr.tag = "Or" ->
            ExprOr([i \in DOMAIN expr.parts |-> expand_expr(expr.parts[i], home)])

\* expand_query_home_dirs_with_home
expand_query_home_dirs_with_home(expr, home) == expand_expr(expr, home)

\* expand_query_home_dirs; home_dir is env::var("HOME").ok()
expand_query_home_dirs(expr, home_dir) ==
    IF ~home_dir.some THEN expr
    ELSE expand_query_home_dirs_with_home(expr, home_dir.text)

\* the values of the queries: ~, ~/c, ~\c, ~n, d and d~/
HomeTexts ==
    {<<"~">>, <<"~", "/", "c">>, <<"~", "\\", "c">>, <<"~", "n">>, <<"d">>,
     <<"d", "~", "/">>}

\* HOME: unset, or /h
HomeDirs == {NoText, SomeText(<<"/", "h">>)}

HomeArguments ==
    {NoArgument}
        \cup {FilterArgument(t, kind, <<>>) :
                t \in {<<"~", "/", "c">>, <<"~", "n">>, <<"~">>}, kind \in {"Bare", "Phrase"}}
        \cup {FilterArgument(<<"~", "/", "c", ";", "~", "n">>, "List",
                             <<<<"~", "/", "c">>, <<"~", "n">>>>),
              FilterArgument(<<"~", ".", ".", "~", "/", "c">>, "Range",
                             <<SomeText(<<"~">>), SomeText(<<"~", "/", "c">>)>>),
              FilterArgument(<<".", ".", "~", "n">>, "Range",
                             <<NoText, SomeText(<<"~", "n">>)>>),
              FilterArgument(<<">", "~", "/", "c">>, "Comparison", <<<<"~", "/", "c">>>>)}

HomeTerms ==
    {ExprTerm(kind, t) : kind \in {"Word", "Phrase", "Regex"}, t \in HomeTexts}
        \cup {ExprTerm(kind, argument) :
                kind \in {"Parent", "InFolder", "NoSubfolders", "Ext", "Size"},
                argument \in HomeArguments}

\* the terms the nested queries are built from
HomeOperands ==
    {ExprEmpty, ExprTerm("Word", <<"~", "/", "c">>), ExprTerm("Word", <<"~", "n">>),
     ExprTerm("Phrase", <<"~", "/", "c">>),
     ExprTerm("Parent", FilterArgument(<<"~", "/", "c">>, "Bare", <<>>)),
     ExprTerm("Ext", FilterArgument(<<"~">>, "Bare", <<>>))}

HomeNested ==
    HomeOperands \cup {ExprNot(e) : e \in HomeOperands}

HomeQueries ==
    HomeTerms \cup HomeNested
        \cup {ExprAnd(<<x, y>>) : x \in HomeOperands, y \in HomeNested}
        \cup {ExprOr(<<x, ExprAnd(<<y, ExprNot(x)>>)>>) : x \in HomeOperands, y \in HomeOperands}

----------------------------------------------------------------------------
(* The graph as program state *)

G == Graph(file_nodes, slab_free, root, name_index)

SetGraph(g) ==
    /\ file_nodes' = g.nodes
    /\ slab_free' = g.free
    /\ root' = g.root
    /\ name_index' = g.index

\* again: when the operation repeats the remove(n) that came right before it,
\* the count that earlier call returned; otherwise -1
NoOp == [op |-> "none", node |-> OptionSlabIndex_none, name |-> RootName,
         status |-> "Ok", count |-> 0, id |-> OptionSlabIndex_none,
         again |-> 0 - 1]

\* the graph right after the walk of an empty directory: the root alone
InitGraph ==
    Graph([k \in {0} |-> SlabNode_new(OptionSlabIndex_none, RootName, MetadataNone("Dir"))],
          <<>>, 0,
          [k \in AllNames |-> IF k = RootName THEN <<0>> ELSE <<>>])

\* what a walk of the root can find: some of a, b and a/b
WalkResults ==
    {walk_graph(InitGraph, paths) :
        paths \in {<<>>, <<PathA>>, <<PathB>>, <<PathA, PathB>>, <<PathAB>>,
                   <<PathAB, PathB>>}}

\* events: the batch; result: Ok or Rescan for a batch, Closed when the window
\* ran out, Rescanned after the walk; closed: the halves that were resolved;
\* before: the graph the step started from
NoBatch == [events |-> <<>>, result |-> "None", closed |-> <<>>, before |-> InitGraph]

\* a cache that starts at cursor 0 with a watcher that has sent nothing
InitIngest ==
    /\ event_queue = <<>>
    /\ source = [id |-> 0, half |-> FALSE]
    /\ last_event_id = 0
    /\ rename_window = <<>>
    /\ last_batch = NoBatch
    /\ seen = [processed |-> 0, applied |-> 0]

\* the parallel searches
ParVariants == {"substr", "subslice", "suffix", "prefix", "exact"}

\* needle: the name searched for; exact, substr, subslice, par: what
\* search_exact of the name between NULs, search_substr, search_subslice and
\* par_search_substr returned; par_subslice, par_suffix, par_prefix, par_exact:
\* what the other parallel searches returned for the name, the name and its
\* NUL, the NUL and the name, and the name between NULs; reports: the hits of
\* their chunks
NoSearch == [searched |-> FALSE, needle |-> <<>>, chunk_size |-> 0,
             exact |-> Names_found(<<>>), substr |-> Names_found(<<>>),
             subslice |-> Names_found(<<>>), par |-> Names_found(<<>>),
             par_subslice |-> Names_found(<<>>), par_suffix |-> Names_found(<<>>),
             par_prefix |-> Names_found(<<>>), par_exact |-> Names_found(<<>>),
             reports |-> [variant \in ParVariants |-> {}]]

\* an empty pool that nothing was asked of
InitPool ==
    /\ pool = NamePool_new
    /\ pushed = <<>>
    /\ last_search = NoSearch

InitProcessor == processor = Processor_new

\* input: the query as it came in; output: the query as it went on
NoRewrite == [op |-> "none", home |-> NoText, input |-> ExprEmpty, output |-> ExprEmpty]

InitRewrite == last_rewrite = NoRewrite

Init ==
    /\ file_nodes = InitGraph.nodes
    /\ slab_free = InitGraph.free
    /\ root = InitGraph.root
    /\ name_index = InitGraph.index
    /\ last_op = NoOp
    /\ InitToken
    /\ InitEval
    /\ InitIngest
    /\ InitPool
    /\ InitProcessor
    /\ InitRewrite
    /\ InitDisplay
    /\ InitWorker
    /\ InitWalker
    /\ InitVisitors

InsertChild ==
    \E parent \in PresentIds(G), name \in Names, metadata \in MetadataSlots :
        /\ Cardinality(PresentIds(G)) < MaxNodes
        /\ LET r == insert_child(G, parent, name, metadata) IN
            /\ SetGraph(r.g)
            /\ last_op' = [NoOp EXCEPT !.op = "insert_child", !.node = parent,
                              !.name = name, !.status = r.status, !.id = r.id]
        /\ UNCHANGED <<hostVars, last_rewrite, processor, poolVars, ingestVars, tokenVars, evalVars>>

Remove ==
    \E n \in DOMAIN file_nodes :
        LET r == remove(G, n) IN
            /\ SetGraph(r.g)
            /\ last_op' = [NoOp EXCEPT !.op = "remove", !.node = n,
                              !.count = r.count,
                              !.again = IF last_op.op = "remove" /\ last_op.node = n
                                        THEN last_op.count ELSE 0 - 1]
            /\ UNCHANGED <<hostVars, last_rewrite, processor, poolVars, ingestVars, tokenVars, evalVars>>

Rename ==
    \E n \in PresentIds(G), new_name \in Names :
        LET r == rename(G, n, new_name) IN
            /\ SetGraph(r.g)
            /\ last_op' = [NoOp EXCEPT !.op = "rename", !.node = n,
                              !.name = new_name, !.status = r.status]
            /\ UNCHANGED <<hostVars, last_rewrite, processor, poolVars, ingestVars, tokenVars, evalVars>>

Next == InsertChild \/ Remove \/ Rename

Spec == Init /\ [][Next]_vars

\* the cache is written to its file and read back
FlushAndLoad ==
    /\ SetGraph(persistent_roundtrip(G))
    /\ last_op' = [NoOp EXCEPT !.op = "load"]
    /\ UNCHANGED <<hostVars, last_rewrite, processor, poolVars, ingestVars, tokenVars, evalVars>>

NextPersistent == InsertChild \/ Remove \/ Rename \/ FlushAndLoad

SpecPersistent == Init /\ [][NextPersistent]_vars

\* the walk or the ingest adds a node while no query runs
Populate ==
    /\ ~query.active
    /\ Cardinality(PresentIds(G)) < MaxEvalNodes
    /\ \E parent \in PresentIds(G), name \in Names, metadata \in MetadataSlots :
           LET r == insert_child(G, parent, name, metadata) IN
               /\ r.status = "Ok"
               /\ SetGraph(r.g)
    /\ UNCHANGED <<hostVars, last_rewrite, processor, poolVars, ingestVars, last_op, tokenVars, evalVars>>

\* evaluate_expr(expr, options, token) on the current graph; cancelled tells
\* whether the token is already cancelled when the call starts
Evaluate ==
    /\ ~query.active
    /\ \E expr \in Exprs, cancelled \in BOOLEAN :
           /\ query' = [active |-> TRUE, expr |-> expr, cancelled |-> cancelled,
                         evaluated |-> IF expr.tag = "And"
                                       THEN evaluate_and_reached(G, expr.parts, 1,
                                                                 NoCurrent, cancelled)
                                       ELSE {}]
           /\ outcome' = evaluate_expr(G, expr, cancelled)
    /\ UNCHANGED <<hostVars, last_rewrite, processor, poolVars, ingestVars, graphVars, tokenVars>>

\* the caller takes the result
Deliver ==
    /\ query.active
    /\ query' = NoQuery
    /\ outcome' = Idle
    /\ UNCHANGED <<hostVars, last_rewrite, processor, poolVars, ingestVars, graphVars, tokenVars>>

NextEval == Populate \/ Evaluate \/ Deliver

SpecEval == Init /\ [][NextEval]_vars

\* a query is parsed, optimized and evaluated on the current graph
SearchParsed ==
    /\ ~query.active
    /\ \E parsed \in ParsedQueries, cancelled \in BOOLEAN :
           LET expr == optimize(parsed) IN
               /\ last_rewrite' = [op |-> "optimize", home |-> NoText,
                                   input |-> parsed, output |-> expr]
               /\ query' = [active |-> TRUE, expr |-> expr, cancelled |-> cancelled,
                             evaluated |-> IF expr.tag = "And"
                                           THEN evaluate_and_reached(G, expr.parts, 1,
                                                                     NoCurrent, cancelled)
                                           ELSE {}]
               /\ outcome' = evaluate_expr(G, expr, cancelled)
    /\ UNCHANGED <<hostVars, processor, poolVars, ingestVars, graphVars, tokenVars>>

\* the caller takes the result of the parsed query
DeliverParsed ==
    /\ query.active
    /\ last_rewrite.op = "optimize"
    /\ query' = NoQuery
    /\ outcome' = Idle
    /\ last_rewrite' = NoRewrite
    /\ UNCHANGED <<hostVars, processor, poolVars, ingestVars, graphVars, tokenVars>>

NextParse == Populate \/ SearchParsed \/ DeliverParsed

SpecParse == Init /\ [][NextParse]_vars

\* the walk adds a node whose metadata it fetched
PopulateSized ==
    /\ ~query.active
    /\ Cardinality(PresentIds(G)) < MaxEvalNodes
    /\ \E parent \in PresentIds(G), name \in Names, metadata \in SizedSlots :
           LET r == insert_child(G, parent, name, metadata) IN
               /\ r.status = "Ok"
               /\ SetGraph(r.g)
    /\ UNCHANGED <<hostVars, last_rewrite, processor, poolVars, ingestVars, last_op, tokenVars, evalVars>>

\* evaluate_expr of a size or date filter
EvaluateSize ==
    /\ ~query.active
    /\ \E expr \in SizeExprs, cancelled \in BOOLEAN :
           /\ query' = [active |-> TRUE, expr |-> expr, cancelled |-> cancelled,
                         evaluated |-> {}]
           /\ outcome' = evaluate_expr(G, expr, cancelled)
    /\ UNCHANGED <<hostVars, last_rewrite, processor, poolVars, ingestVars, graphVars, tokenVars>>

NextSize == PopulateSized \/ EvaluateSize \/ Deliver

SpecSize == Init /\ [][NextSize]_vars

\* the walk adds a node whose name may have an extension
PopulateExt ==
    /\ ~query.active
    /\ Cardinality(PresentIds(G)) < MaxEvalNodes
    /\ \E parent \in PresentIds(G), name \in ExtNames, metadata \in MetadataSlots :
           LET r == insert_child(G, parent, name, metadata) IN
               /\ r.status = "Ok"
               /\ SetGraph(r.g)
    /\ UNCHANGED <<hostVars, last_rewrite, processor, poolVars, ingestVars, last_op, tokenVars, evalVars>>

\* evaluate_expr of an extension filter or of its negation
EvaluateExt ==
    /\ ~query.active
    /\ \E expr \in ExtExprs, cancelled \in BOOLEAN :
           /\ query' = [active |-> TRUE, expr |-> expr, cancelled |-> cancelled,
                         evaluated |-> {}]
           /\ outcome' = evaluate_expr(G, expr, cancelled)
    /\ UNCHANGED <<hostVars, last_rewrite, processor, poolVars, ingestVars, graphVars, tokenVars>>

NextExt == PopulateExt \/ EvaluateExt \/ Deliver

SpecExt == Init /\ [][NextExt]_vars

\* the events the source can report
EventKinds ==
    {[path |-> p, flags |-> {"Created"}] : p \in {PathA, PathAB, PathOutside}}
        \cup {[path |-> PathA, flags |-> {"Removed"}]}
        \cup {[path |-> p, flags |-> {"Renamed"}] : p \in {PathA, PathB}}
        \cup {[path |-> PathA, flags |-> {"Modified"}]}
        \cup {[path |-> PathA, flags |-> {f}] : f \in RescanFlags \cup {"Mount"}}

\* the watcher adds an event of one of the kinds to the batch it will send;
\* ids never go down, and only the second half of a rename repeats the id of
\* the first
Emit(kinds) ==
    /\ last_batch.result # "Rescan"
    /\ Len(event_queue) < MaxBatch
    /\ \E k \in kinds, same \in BOOLEAN :
           LET id == IF same THEN source.id ELSE source.id + 1 IN
               /\ same => ("Renamed" \in k.flags /\ source.half)
               /\ id <= MaxEventId
               /\ event_queue' = Append(event_queue, FsEvent(k.path, id, k.flags))
               /\ source' = [id |-> id, half |-> "Renamed" \in k.flags /\ ~same]
    /\ last_batch' = NoBatch
    /\ UNCHANGED <<hostVars, last_rewrite, processor, poolVars, last_event_id, rename_window, seen, graphVars, tokenVars, evalVars>>

EmitEvent == Emit(EventKinds)

\* the events that bear on the metadata slots
MetadataEventKinds ==
    {[path |-> PathAB, flags |-> {"Created"}],
     [path |-> PathA, flags |-> {"Modified"}],
     [path |-> PathAB, flags |-> {"XAttrModified"}],
     [path |-> PathA, flags |-> {"Removed"}],
     [path |-> PathA, flags |-> {"KernelDropped"}]}

EmitMetadataEvent == Emit(MetadataEventKinds)

\* a reader needs the metadata of a node (expand_file_nodes, a filter on
\* metadata); lstat succeeds or fails
EnsureMetadata ==
    /\ last_batch.result # "Rescan"
    /\ \E n \in PresentIds(G), stat_ok \in BOOLEAN :
           /\ SetGraph(ensure_metadata(G, n, stat_ok))
           /\ last_op' = [NoOp EXCEPT !.op = "ensure_metadata", !.node = n,
                             !.status = IF file_nodes[n].metadata.state = "None"
                                        THEN "Fetched" ELSE "Cached"]
    /\ UNCHANGED <<hostVars, last_rewrite, processor, poolVars, ingestVars, tokenVars, evalVars>>

\* the ids of the events the handler got to: all of them, or those up to and
\* including the first that asks for a rescan
ProcessedIds(events) ==
    {events[i].id : i \in {j \in DOMAIN events :
                              \A k \in 1..(j - 1) : ~should_rescan(events[k])}}

\* the worker takes the batch and hands it to handle_fs_events
HandleFsEvents ==
    /\ event_queue # <<>>
    /\ LET r == handle_fs_events(G, rename_window, last_event_id, event_queue) IN
           /\ SetGraph(r.g)
           /\ rename_window' = r.window
           /\ last_event_id' = r.cursor
           /\ last_batch' = [events |-> event_queue, result |-> r.result,
                             closed |-> rename_window, before |-> G]
           /\ seen' = [processed |-> Max({seen.processed} \cup ProcessedIds(event_queue)),
                       applied |-> IF r.result = "Ok"
                                   THEN Max({seen.applied} \cup ProcessedIds(event_queue))
                                   ELSE seen.applied]
    /\ event_queue' = <<>>
    /\ last_op' = NoOp
    /\ UNCHANGED <<hostVars, last_rewrite, processor, poolVars, source, tokenVars, evalVars>>

\* the pairing window runs out before another batch comes
CloseRenameWindow ==
    /\ rename_window # <<>>
    /\ last_batch.result # "Rescan"
    /\ SetGraph(close_window(G, rename_window))
    /\ rename_window' = <<>>
    /\ last_batch' = [events |-> <<>>, result |-> "Closed",
                      closed |-> rename_window, before |-> G]
    /\ last_op' = NoOp
    /\ UNCHANGED <<hostVars, last_rewrite, processor, poolVars, event_queue, source, last_event_id, seen, tokenVars, evalVars>>

\* the worker answers Rescan: the graph is replaced by a fresh walk
RescanCache ==
    /\ last_batch.result = "Rescan"
    /\ \E g \in WalkResults : SetGraph(g)
    /\ last_batch' = [NoBatch EXCEPT !.result = "Rescanned"]
    /\ last_op' = NoOp
    /\ UNCHANGED <<hostVars, last_rewrite, processor, poolVars, event_queue, source, last_event_id, rename_window, seen,
                   tokenVars, evalVars>>

NextIngest == EmitEvent \/ HandleFsEvents \/ CloseRenameWindow \/ RescanCache

SpecIngest == Init /\ [][NextIngest]_vars

NextMetadata == EmitMetadataEvent \/ HandleFsEvents \/ EnsureMetadata \/ RescanCache

SpecMetadata == Init /\ [][NextMetadata]_vars

Push ==
    \E name \in PoolNames :
        /\ Len(pushed) < MaxPushes
        /\ LET r == NamePool_push(pool, name)
           IN  /\ pool' = r.pool
               /\ pushed' = Append(pushed, [name |-> name, start |-> r.start,
                                            len_before |-> NamePool_len(pool),
                                            len_after |-> NamePool_len(r.pool)])
        /\ last_search' = NoSearch
        /\ UNCHANGED <<hostVars, last_rewrite, processor, ingestVars, graphVars, tokenVars, evalVars>>

\* one name searched for in the nine ways; the chunk size of the parallel
\* search and the build profile are the caller's. A search leaves the pool as
\* it is, so one search between two pushes reaches every state that several do.
Search ==
    \E needle \in PoolNames, chunk_size \in 1..Len(pool), debug_assertions \in BOOLEAN :
        /\ ~last_search.searched
        /\ last_search' = [searched |-> TRUE, needle |-> needle, chunk_size |-> chunk_size,
                     exact |-> search_exact(pool, <<NUL>> \o needle \o <<NUL>>,
                                            debug_assertions),
                     substr |-> search_substr(pool, needle, debug_assertions),
                     subslice |-> search_subslice(pool, needle, debug_assertions),
                     par |-> par_search_substr(pool, needle, chunk_size),
                     par_subslice |-> par_search_subslice(pool, needle, chunk_size),
                     par_suffix |-> par_search_suffix(pool, needle, chunk_size),
                     par_prefix |-> par_search_prefix(pool, <<NUL>> \o needle, chunk_size),
                     par_exact |-> par_search_exact(pool, <<NUL>> \o needle \o <<NUL>>,
                                                    chunk_size),
                     reports |-> [variant \in ParVariants |->
                         chunk_reports(pool,
                             CASE variant \in {"substr", "subslice"} -> needle
                               [] variant = "suffix" -> to_bytes_with_nul(needle)
                               [] variant = "prefix" -> <<NUL>> \o needle
                               [] variant = "exact" -> <<NUL>> \o needle \o <<NUL>>,
                             chunk_size, variant = "substr")]]
        /\ UNCHANGED <<hostVars, last_rewrite, processor, pool, pushed, ingestVars, graphVars, tokenVars, evalVars>>

NextPool == Push \/ Search

SpecPool == Init /\ [][NextPool]_vars

ProcessorUnchanged ==
    UNCHANGED <<hostVars, last_rewrite, poolVars, ingestVars, graphVars, tokenVars, evalVars>>

\* the event stream's callback sends an event into the system channel
SendFsEvent ==
    \E event \in EventKinds :
        /\ Len(processor.events_receiver) < MaxPending
        /\ processor' = [processor EXCEPT !.events_receiver = Append(@, event)]
        /\ ProcessorUnchanged

\* Processor::block_on, its first line: the database is loaded or scanned
BlockOnGetDb ==
    \E from_fs_ok \in BOOLEAN :
        /\ processor.thread = "Created"
        /\ LET p == get_db(processor, from_fs_ok)
           IN  processor' = IF p.thread = "Panicked" THEN p
                            ELSE [p EXCEPT !.thread = "Running"]
        /\ ProcessorUnchanged

\* Processor::block_on, one turn of its loop: recv() waits for an event
BlockOnProcessEvent ==
    /\ processor.thread = "Running"
    /\ processor.events_receiver # <<>>
    /\ processor' = process_event(processor)
    /\ ProcessorUnchanged

\* Processor::close, called by the application at any time
ProcessorClose ==
    \E into_fs_ok \in BOOLEAN :
        /\ processor' = close(processor, into_fs_ok)
        /\ ProcessorUnchanged

NextProcessor == SendFsEvent \/ BlockOnGetDb \/ BlockOnProcessEvent \/ ProcessorClose

SpecProcessor == Init /\ [][NextProcessor]_vars

\* a parsed query goes through the home expansion
ExpandQueryHomeDirs ==
    \E expr \in HomeQueries, home_dir \in HomeDirs :
        /\ last_rewrite' = [op |-> "expand", home |-> home_dir, input |-> expr,
                            output |-> expand_query_home_dirs(expr, home_dir)]
        /\ UNCHANGED <<hostVars, processor, poolVars, ingestVars, graphVars, tokenVars, evalVars>>

NextPreprocess == ExpandQueryHomeDirs

SpecPreprocess == Init /\ [][NextPreprocess]_vars

\* process_event calls fill_fs_event with the event it received
FillFsEvent ==
    /\ display.fill.pc = "idle"
    /\ display.arrived < MaxFills
    /\ display' = [display EXCEPT !.arrived = @ + 1,
                                  !.fill = [pc |-> "try_send", event |-> display.arrived + 1,
                                            sends |-> 0]]
    /\ UNCHANGED <<coreVars, worker, walker, visitors>>

\* fill_fs_event, the try_send of its loop: Ok ends the call, Full goes on
FillTrySend ==
    /\ display.fill.pc = "try_send"
    /\ LET sent == try_send(display.limited_fs_events, ChannelLen, display.fill.event)
       IN  display' = [display EXCEPT !.limited_fs_events = sent.channel,
                                      !.fill.sends = @ + 1,
                                      !.fill.pc = IF sent.ok THEN "idle" ELSE "try_recv"]
    /\ UNCHANGED <<coreVars, worker, walker, visitors>>

\* fill_fs_event, the try_recv after Full: the event received is dropped
FillTryRecv ==
    /\ display.fill.pc = "try_recv"
    /\ LET received == try_recv(display.limited_fs_events)
       IN  display' = [display EXCEPT !.limited_fs_events = received.channel,
                                      !.dropped = IF received.ok
                                                  THEN Append(@, received.event) ELSE @,
                                      !.fill.pc = "try_send"]
    /\ UNCHANGED <<coreVars, worker, walker, visitors>>

\* take_fs_events, up to its loop: max_take_num is twice the length now
TakeFsEvents ==
    /\ display.take.pc = "idle"
    /\ display' = [display EXCEPT
           !.take = [pc |-> "try_recv",
                     max_take_num |-> 2 * Len(display.limited_fs_events),
                     fs_events |-> <<>>],
           !.provided = <<>>]
    /\ UNCHANGED <<coreVars, worker, walker, visitors>>

\* take_fs_events, one turn of its loop; the call returns on Err and on break
TakeTryRecv ==
    /\ display.take.pc = "try_recv"
    /\ LET received == try_recv(display.limited_fs_events)
           taken == display.take.fs_events
       IN  display' =
               IF ~received.ok
               THEN [display EXCEPT !.take.pc = "idle", !.take.fs_events = <<>>,
                                    !.provided = taken]
               ELSE IF Len(taken) >= display.take.max_take_num
               THEN [display EXCEPT !.limited_fs_events = received.channel,
                                    !.lost = Append(@, received.event),
                                    !.take.pc = "idle", !.take.fs_events = <<>>,
                                    !.provided = taken]
               ELSE [display EXCEPT !.limited_fs_events = received.channel,
                                    !.take.fs_events = Append(@, received.event)]
    /\ UNCHANGED <<coreVars, worker, walker, visitors>>

NextDisplay ==
    FillFsEvent \/ FillTrySend \/ FillTryRecv \/ TakeFsEvents \/ TakeTryRecv

SpecDisplay == Init /\ [][NextDisplay]_vars

WorkerUnchanged == UNCHANGED <<coreVars, display, walker, visitors>>

\* the thread starts: the cache is read from the file or walked, and the
\* first watcher is spawned from its cursor
WorkerInit ==
    \E cached \in BOOLEAN :
        /\ worker.pc = "init"
        /\ LET started == [worker EXCEPT !.loaded = cached, !.pc = "select"]
               announced == IF cached THEN started ELSE emit_init(started)
           IN  worker' = EventWatcher_spawn(announced, announced.cache.last_event_id)
        /\ WorkerUnchanged

\* the callback of a running stream sends a batch; let _ = sender.send(events)
StreamCallback ==
    \E gen \in DOMAIN worker.streams, flags \in BatchFlags :
        /\ worker.streams[gen].running
        /\ worker.batches < MaxBatches
        /\ LET stream == worker.streams[gen]
               batch == [gen |-> gen, serial |-> worker.batches + 1,
                         events |-> <<FsEvent(PathA, stream.next, flags)>>]
           IN  worker' = [worker EXCEPT
                   !.batches = @ + 1,
                   !.streams[gen].next = @ + 1,
                   !.streams[gen].channel = IF stream.receiver THEN Append(@, batch) ELSE @]
        /\ WorkerUnchanged

\* the thread of a watcher whose token is gone returns and stops its stream
StreamStop ==
    \E gen \in DOMAIN worker.streams :
        /\ worker.streams[gen].running
        /\ ~worker.streams[gen].token
        /\ worker' = [worker EXCEPT !.streams[gen].running = FALSE]
        /\ WorkerUnchanged

\* select: recv(event_watcher.receiver)
WorkerRecvEvents ==
    /\ worker.pc = "select"
    /\ worker.event_watcher # 0
    /\ worker.streams[worker.event_watcher].channel # <<>>
    /\ LET events == Head(worker.streams[worker.event_watcher].channel)
           received == [worker EXCEPT !.streams[worker.event_watcher].channel = Tail(@),
                                      !.received = Append(@, events.events[1].flags)]
           announced == IF \E i \in DOMAIN events.events : is_history_done(events.events[i])
                        THEN emit_init(received) ELSE received
           handled == cache_handle_fs_events(announced.cache, events)
       IN  worker' = [announced EXCEPT !.cache = handled.cache,
                                       !.pc = IF handled.result = "Rescan"
                                              THEN "clear" ELSE "select"]
    /\ WorkerUnchanged

\* Rescan: event_watcher.clear()
WorkerClear ==
    /\ worker.pc = "clear"
    /\ worker' = [EventWatcher_clear(worker) EXCEPT !.pc = "rescan"]
    /\ WorkerUnchanged

\* cache.rescan() sets out: the graph is being rebuilt
WorkerRescan ==
    /\ worker.pc = "rescan"
    /\ worker' = [worker EXCEPT !.cache.whole = FALSE, !.pc = "rescanning"]
    /\ WorkerUnchanged

\* cache.rescan() returns
WorkerRescanned ==
    /\ worker.pc = "rescanning"
    /\ worker' = [worker EXCEPT !.cache.whole = TRUE, !.cache.rescans = @ + 1,
                                !.pc = "spawn"]
    /\ WorkerUnchanged

\* event_watcher = EventWatcher::spawn(.., cache.last_event_id(), ..); the
\* watcher held until now is dropped by the assignment
WorkerSpawn ==
    /\ worker.pc = "spawn"
    /\ worker' = [EventWatcher_spawn(EventWatcher_drop(worker), worker.cache.last_event_id)
                     EXCEPT !.pc = "select"]
    /\ WorkerUnchanged

\* select: recv(search_rx); the result goes into the result channel
WorkerSearch ==
    /\ worker.pc = "select"
    /\ worker.search_rx # <<>>
    /\ LET asked == Head(worker.search_rx)
           result == [query |-> asked, applied |-> Len(worker.cache.applied),
                      whole |-> worker.cache.whole]
       IN  worker' = [worker EXCEPT !.search_rx = Tail(@),
                                    !.result_rx = Append(@, result),
                                    !.answered = Append(@, result)]
    /\ WorkerUnchanged

\* select: recv(finish_rx)
WorkerFinish ==
    /\ worker.pc = "select"
    /\ worker.finish_rx # <<>>
    /\ worker' = worker_finish(worker)
    /\ WorkerUnchanged

\* the main thread is asked to exit: finish_tx.send(cache_tx)
MainExit ==
    /\ worker.main = "running"
    /\ worker' = [worker EXCEPT !.finish_rx = Append(@, "cache_tx"), !.main = "recv"]
    /\ WorkerUnchanged

\* cache_rx.recv()
MainRecvCache ==
    /\ worker.main = "recv"
    /\ worker.cache.owner = "cache_tx"
    /\ worker' = [worker EXCEPT !.cache.owner = "main", !.main = "flush"]
    /\ WorkerUnchanged

\* cache.flush_to_file(), then the process leaves
MainFlush ==
    /\ worker.main = "flush"
    /\ worker' = [worker EXCEPT !.cache_file = Append(@, worker.cache.applied),
                                !.main = "done"]
    /\ WorkerUnchanged

\* a search command starts: search_tx.send(query)
SearchSend ==
    /\ Len(worker.commands) < MaxSearches
    /\ worker.main # "done"
    /\ worker.pc # "exited"
    /\ LET asked == Len(worker.commands) + 1
       IN  worker' = [worker EXCEPT
               !.commands = Append(@, [pc |-> "recv", query |-> asked, result |-> 0]),
               !.search_rx = Append(@, asked)]
    /\ WorkerUnchanged

\* a search command that waits gets the next result: result_rx.recv()
SearchRecv ==
    \E c \in DOMAIN worker.commands :
        /\ worker.commands[c].pc = "recv"
        /\ worker.result_rx # <<>>
        /\ worker' = [worker EXCEPT !.result_rx = Tail(@),
                                    !.commands[c].pc = "done",
                                    !.commands[c].result = Head(worker.result_rx).query]
        /\ WorkerUnchanged

NextWorker ==
    \/ WorkerInit \/ StreamCallback \/ StreamStop
    \/ WorkerRecvEvents \/ WorkerClear \/ WorkerRescan \/ WorkerRescanned \/ WorkerSpawn
    \/ WorkerSearch \/ WorkerFinish
    \/ MainExit \/ MainRecvCache \/ MainFlush
    \/ SearchSend \/ SearchRecv

SpecWorker == Init /\ [][NextWorker]_vars

\* the faults of one walk: none, or up to MaxInterrupts of each kind
WalkFaults ==
    [metadata : [WalkDirs -> 0..MaxInterrupts],
     read_dir : [WalkDirs -> 0..MaxInterrupts],
     entry : [WalkDirs -> 0..MaxInterrupts]]

\* walk_it on r, with or without d as the directory to ignore
WalkIt ==
    \E faults \in WalkFaults, ignore_directory \in {"", "d"} :
        /\ ~walker.walked
        /\ faults.metadata["r"] = 0
        /\ LET result == walk_it("r", WalkData_new(ignore_directory, faults))
           IN  walker' = [walked |-> TRUE, faults |-> faults, node |-> result.node,
                          walk_data |-> result.walk_data]
        /\ UNCHANGED <<coreVars, display, worker, visitors>>

NextWalk == WalkIt

SpecWalk == Init /\ [][NextWalk]_vars

\* the walk hands the next entry to one of the visitors
Visit ==
    \E visitor \in DOMAIN visitors.visitors, converts \in BOOLEAN :
        /\ visitors.walking
        /\ visitors.entries < MaxEntries
        /\ visitors' = [Visitor_visit(visitors, visitor, visitors.entries + 1, converts)
                           EXCEPT !.entries = @ + 1]
        /\ UNCHANGED <<coreVars, display, worker, walker>>

\* walkdir.visit returns: the visitors and the builder are dropped, their
\* senders with them
VisitReturns ==
    /\ visitors.walking
    /\ visitors' = [visitors EXCEPT
           !.walking = FALSE,
           !.visitors = [i \in DOMAIN @ |-> [alive |-> FALSE, buffer |-> <<>>]]]
    /\ UNCHANGED <<coreVars, display, worker, walker>>

\* the inserting loop receives a chunk and inserts its entries
InsertEntries ==
    /\ visitors.raw_entry_receiver # <<>>
    /\ visitors' = [visitors EXCEPT
           !.raw_entry_receiver = Tail(@),
           !.inserted = @ \cup Range(Head(visitors.raw_entry_receiver))]
    /\ UNCHANGED <<coreVars, display, worker, walker>>

NextVisit == Visit \/ VisitReturns \/ InsertEntries

SpecVisit == Init /\ [][NextVisit]_vars

NextToken == IssueToken \/ IssueNoop \/ AskToken

SpecToken == Init /\ [][NextToken]_vars

----------------------------------------------------------------------------
(* Properties of the graph operations *)

GraphVars == <<file_nodes, slab_free, root, name_index>>

\* n itself and every node whose parent chain passes through n
RECURSIVE HasAncestorOrSelf(_, _, _)
HasAncestorOrSelf(g, d, n) ==
    \/ d = n
    \/ /\ Present(g, d)
       /\ g.nodes[d].parent # OptionSlabIndex_none
       /\ HasAncestorOrSelf(g, g.nodes[d].parent, n)

Subtree(g, n) == {d \in PresentIds(g) : HasAncestorOrSelf(g, d, n)}

ListedIn(g, d) ==
    \/ \E k \in DOMAIN g.index : d \in Range(g.index[k])
    \/ \E p \in PresentIds(g) : d \in Range(g.nodes[p].children)

\* C3: after any sequence of insert_child, remove and rename, name_index[k]
\* lists n exactly when n is a present node named k, and lists no id twice.
C3_NameIndexExact ==
    \A k \in AllNames :
        /\ \A n \in DOMAIN file_nodes :
               n \in Range(name_index[k])
                   <=> (file_nodes[n].present /\ file_nodes[n].name = k)
        /\ Range(name_index[k]) \subseteq DOMAIN file_nodes
        /\ Len(name_index[k]) = Cardinality(Range(name_index[k]))

\* a removal of a subtree has happened and nodes are still indexed
C3_Witness ==
    /\ last_op.op = "remove"
    /\ last_op.count >= 2
    /\ \E k \in Names : name_index[k] # <<>>

Occurrences(s, x) == Cardinality({i \in DOMAIN s : s[i] = x})

\* C4: exactly one present node has no parent; every other present node is
\* listed exactly once by its parent; every listed child is a present node
\* owned by the lister; siblings have distinct names.
C4_TreeShape ==
    /\ Cardinality({n \in PresentIds(G) :
                       file_nodes[n].parent = OptionSlabIndex_none}) = 1
    /\ \A n \in PresentIds(G) :
           file_nodes[n].parent # OptionSlabIndex_none =>
               /\ Present(G, file_nodes[n].parent)
               /\ Occurrences(file_nodes[file_nodes[n].parent].children, n) = 1
    /\ \A p \in PresentIds(G) :
           \A i \in DOMAIN file_nodes[p].children :
               LET c == file_nodes[p].children[i] IN
                   /\ Present(G, c)
                   /\ file_nodes[c].parent = p
                   /\ \A j \in DOMAIN file_nodes[p].children :
                          j # i => file_nodes[file_nodes[p].children[j]].name
                                       # file_nodes[c].name

C6_RemoveSubtreeIdempotent ==
    [][last_op'.op = "remove" =>
        LET n == last_op'.node
            doomed == Subtree(G, n)
            after == Graph(file_nodes', slab_free', root', name_index')
        IN  /\ Present(G, n) =>
                /\ last_op'.count = Cardinality(doomed)
                /\ PresentIds(after) = PresentIds(G) \ doomed
                /\ \A d \in doomed : ~ListedIn(after, d)
            /\ ~Present(G, n) =>
                /\ last_op'.count = 0
                /\ UNCHANGED GraphVars
            /\ (last_op.op = "remove" /\ last_op.node = n) =>
                /\ last_op'.count = 0
                /\ UNCHANGED GraphVars]_vars

\* remove(n) took a node with descendants away and was then called again
C6_Witness ==
    /\ last_op.op = "remove"
    /\ last_op.again >= 2
    /\ last_op.count = 0

----------------------------------------------------------------------------
(* Properties of the cancellation token *)

IssuedIdx == {i \in DOMAIN tokens : tokens[i].kind = "issued"}

\* the newest issued token is live and every earlier issued one is cancelled
C2_NewestLiveOlderCancelled ==
    \A i \in IssuedIdx :
        is_cancelled(tokens[i], active_version)
            <=> (\E j \in IssuedIdx : j > i)

\* C2: after any sequence of issuances the most recently issued token reports
\* not cancelled and every token issued before it reports cancelled, and a
\* token that has reported cancelled never reports not-cancelled afterwards.
C2_TokenGenerations ==
    /\ []C2_NewestLiveOlderCancelled
    /\ [][\A i \in DOMAIN reports :
             reports[i] = "cancelled" => reports'[i] = "cancelled"]_vars

\* three tokens were issued; the first reported live and later cancelled
C2_Witness ==
    /\ Cardinality(IssuedIdx) >= 3
    /\ \E i \in IssuedIdx :
           /\ reports[i] = "cancelled"
           /\ \E j \in IssuedIdx : j > i /\ reports[j] = "live"
                                   /\ ~is_cancelled(tokens[j], active_version)

----------------------------------------------------------------------------
(* Properties of the evaluator *)

\* C1: evaluate_expr called with a token that is already cancelled returns
\* Ok(None), whatever the expression and the graph.
C1_CancelledReturnsNone ==
    (query.active /\ query.cancelled) => outcome.kind = "None"

----------------------------------------------------------------------------
(* Properties of the change ingest *)

Resolves(g, path) == node_index_for_raw_path(g, path) # OptionSlabIndex_none

\* the path of a node, read off its parent chain
RECURSIVE node_path(_, _)
node_path(g, n) ==
    IF g.nodes[n].parent = OptionSlabIndex_none THEN RootPath
    ELSE node_path(g, g.nodes[n].parent) \o <<g.nodes[n].name>>

Indexed(g) == UNION {Range(g.index[k]) : k \in DOMAIN g.index}

\* the last step handled a batch
BatchHandled == last_batch.result \in {"Ok", "Rescan"}

LastEvent == last_batch.events[Len(last_batch.events)]

\* the position of the first event of the batch that asks for a rescan
FirstRescan(events) ==
    CHOOSE i \in DOMAIN events :
        /\ should_rescan(events[i])
        /\ \A j \in 1..(i - 1) : ~should_rescan(events[j])

\* C7: a batch that holds an event flagged MustScanSubDirs, KernelDropped,
\* UserDropped or RootChanged makes handle_fs_events return Rescan, and the
\* graph it leaves is the one the events before that event produced: no
\* later event of the batch has touched it.
C7_RescanStopsBatch ==
    (/\ BatchHandled
     /\ \E i \in DOMAIN last_batch.events :
            last_batch.events[i].flags \cap RescanFlags # {})
    => /\ last_batch.result = "Rescan"
       /\ LET i == FirstRescan(last_batch.events)
              upto == handle_fs_events(last_batch.before, last_batch.closed, 0,
                                       SubSeq(last_batch.events, 1, i - 1))
          IN G = upto.g

\* a Rescan came back for a batch whose flagged event is followed by the
\* creation of a path the graph does not hold
C7_Witness ==
    /\ last_batch.result = "Rescan"
    /\ Len(last_batch.events) = 2
    /\ last_batch.events[1].flags \cap RescanFlags # {}
    /\ last_batch.events[2].flags = {"Created"}
    /\ last_batch.events[2].path = PathA
    /\ ~Resolves(G, PathA)

\* the batch was the two halves of one rename, old first, with old in the graph
RenamePairHandled ==
    /\ last_batch.result = "Ok"
    /\ last_batch.closed = <<>>
    /\ Len(last_batch.events) = 2
    /\ last_batch.events[1].flags = {"Renamed"}
    /\ last_batch.events[2].flags = {"Renamed"}
    /\ last_batch.events[1].id = last_batch.events[2].id
    /\ Resolves(last_batch.before, last_batch.events[1].path)

\* the node of old is still there under the last component of new, and the
\* name index has followed
RenamedInPlace ==
    LET old == last_batch.events[1].path
        new == last_batch.events[2].path
        n == node_index_for_raw_path(last_batch.before, old)
    IN  /\ Present(G, n)
        /\ file_nodes[n].name = new[Len(new)]
        /\ n \notin Range(name_index[old[Len(old)]])
        /\ n \in Range(name_index[new[Len(new)]])

\* the window ran out on one pending half: a path that was in the graph is
\* gone with its node, a path that was not is there now
SingleHalfResolved ==
    (last_batch.result = "Closed" /\ Len(last_batch.closed) = 1)
    => LET path == last_batch.closed[1].path
           n == node_index_for_raw_path(last_batch.before, path)
       IN  IF n # OptionSlabIndex_none
           THEN ~Present(G, n) /\ ~Resolves(G, path)
           ELSE Resolves(G, path)

C9_CreatedThenRemoved ==
    (last_batch.result = "Ok" /\ last_batch.events # <<>>)
    => /\ (LastEvent.flags = {"Created"} /\ StartsWith(LastEvent.path, RootPath))
          => \A k \in Len(RootPath)..Len(LastEvent.path) :
                 Present(G, node_index_for_raw_path(G, SubSeq(LastEvent.path, 1, k)))
       /\ LastEvent.flags = {"Removed"}
          => /\ ~Resolves(G, LastEvent.path)
             /\ \A n \in PresentIds(G) \cup Indexed(G) :
                    Present(G, n) /\ ~StartsWith(node_path(G, n), LastEvent.path)
             /\ (Len(last_batch.events) = 1 /\ last_batch.closed = <<>>
                 /\ Resolves(last_batch.before, LastEvent.path))
                => \A d \in Subtree(last_batch.before,
                                    node_index_for_raw_path(last_batch.before,
                                                            LastEvent.path)) :
                       ~Present(G, d) /\ d \notin Indexed(G)

\* a and a/b were in the graph, then Removed came for a
C9_Witness ==
    /\ last_batch.result = "Ok"
    /\ Len(last_batch.events) = 1
    /\ LastEvent.flags = {"Removed"}
    /\ LastEvent.path = PathA
    /\ Resolves(last_batch.before, PathAB)
    /\ PresentIds(G) = {root}

----------------------------------------------------------------------------
(* Properties of the metadata slots *)

SlotState(nodes, n) == nodes[n].metadata.state

\* the step is a call of ensure_metadata
EnsureStep == last_op'.op = "ensure_metadata" /\ event_queue' = event_queue

\* the step handles a batch
HandleStep == event_queue # <<>> /\ event_queue' = <<>>

\* the events of the batch the handler gets to
Reached(events) ==
    {events[i] : i \in {j \in DOMAIN events :
                           \A k \in 1..j : ~should_rescan(events[k])}}

\* no event of the batch takes a node out of the graph
KeepsNodes(events) ==
    \A i \in DOMAIN events : events[i].flags \cap {"Removed", "Renamed"} = {}

\* C11: every slot is None after a walk and in a node an event creates; a call
\* of ensure_metadata moves the slot of its node from None to Some or to
\* Unaccessible and changes nothing when that slot is not None; a batch moves
\* a slot only back to None, and only for a node hit by an event flagged
\* Modified, InodeModified, XAttrModified or OwnerModified; no other step
\* touches a slot.
C11_MetadataSlotSteps ==
    [][/\ EnsureStep =>
            /\ IF SlotState(file_nodes, last_op'.node) = "None"
               THEN SlotState(file_nodes', last_op'.node) \in {"Some", "Unaccessible"}
               ELSE file_nodes' = file_nodes
            /\ \A n \in PresentIds(G) \ {last_op'.node} : file_nodes'[n] = file_nodes[n]
            /\ DOMAIN file_nodes' = DOMAIN file_nodes
       /\ (HandleStep /\ rename_window = <<>> /\ KeepsNodes(event_queue)) =>
            /\ \A n \in PresentIds(G) :
                   /\ file_nodes'[n].present
                   /\ \/ SlotState(file_nodes', n) = SlotState(file_nodes, n)
                      \/ /\ SlotState(file_nodes', n) = "None"
                         /\ \E e \in Reached(event_queue) :
                                /\ e.flags \cap ModifyFlags # {}
                                /\ e.path = node_path(G, n)
            /\ \A n \in DOMAIN file_nodes' :
                   (file_nodes'[n].present /\ ~Present(G, n))
                   => SlotState(file_nodes', n) = "None"
       /\ (last_batch.result = "Rescan" /\ last_batch'.result = "Rescanned") =>
            \A n \in DOMAIN file_nodes' : SlotState(file_nodes', n) = "None"
       /\ (~EnsureStep /\ ~HandleStep /\ last_batch'.result # "Rescanned") =>
            file_nodes' = file_nodes]_vars

\* metadata was asked again for a node whose slot was already filled
C11_Witness ==
    /\ last_op.op = "ensure_metadata"
    /\ last_op.status = "Cached"
    /\ SlotState(file_nodes, last_op.node) = "Some"
    /\ \E n \in PresentIds(G) : SlotState(file_nodes, n) = "Unaccessible"

----------------------------------------------------------------------------
(* Properties of And, Or and Not *)

\* what evaluate_expr gives for operand i of the expression of the query
OperandNodes(i) == evaluate_expr(G, query.expr.parts[i], query.cancelled).nodes

\* the query is an And / an Or that came back with a vector
AndAnswered == query.active /\ query.expr.tag = "And" /\ outcome.kind = "Some"

\* C12: an And with no Not operand that returns a vector returns the ids of
\* its first operand's result that every operand's result holds, in the
\* order of the first operand's result.
C12_AndIsIntersection ==
    (AndAnswered /\ \A i \in DOMAIN query.expr.parts : query.expr.parts[i].tag # "Not")
    => outcome.nodes =
           SelectSeq(OperandNodes(1),
                     LAMBDA x : \A i \in DOMAIN query.expr.parts :
                                    x \in Range(OperandNodes(i)))

\* an And of two operands whose results list the common ids in different
\* orders, and the first holds an id the second lacks
C12_Witness ==
    /\ AndAnswered
    /\ Len(query.expr.parts) = 2
    /\ \A i \in DOMAIN query.expr.parts : query.expr.parts[i].tag # "Not"
    /\ Len(outcome.nodes) = 2
    /\ Len(OperandNodes(1)) > 2
    /\ outcome.nodes # OperandNodes(2)

\* the running result of the And of the query after its first k operands
RunningResult(k) ==
    evaluate_expr(G, ExprAnd(SubSeq(query.expr.parts, 1, k)), query.cancelled)

\* C13: once an operand leaves the running result of an And empty, no later
\* operand is evaluated and the And returns the empty vector.
C13_AndShortCircuits ==
    \A k \in 1..3 :
        (/\ query.active /\ query.expr.tag = "And" /\ ~query.cancelled
         /\ k < Len(query.expr.parts)
         /\ RunningResult(k) = OkSome(<<>>)
         /\ \A j \in 1..(k - 1) : RunningResult(j) # OkSome(<<>>))
        => /\ query.evaluated = 1..k
           /\ outcome = OkSome(<<>>)

OrAnswered == query.active /\ query.expr.tag = "Or" /\ outcome.kind = "Some"

\* the operands' results read left to right
OperandsInOrder == Concat([i \in DOMAIN query.expr.parts |-> OperandNodes(i)])

\* the first position of x in s
FirstIndex(s, x) == CHOOSE i \in DOMAIN s : s[i] = x /\ \A j \in 1..(i - 1) : s[j] # x

\* C14: an Or that returns a vector returns the ids that some operand's result
\* holds, each once, in the order of their first occurrence when the
\* operands' results are read left to right.
C14_OrIsOrderedUnion ==
    OrAnswered =>
        /\ Range(outcome.nodes) = Range(OperandsInOrder)
        /\ \A i, j \in DOMAIN outcome.nodes :
               i < j => /\ outcome.nodes[i] # outcome.nodes[j]
                        /\ FirstIndex(OperandsInOrder, outcome.nodes[i])
                               < FirstIndex(OperandsInOrder, outcome.nodes[j])

\* an Or whose operands share an id and each hold one the other lacks
C14_Witness ==
    /\ OrAnswered
    /\ Range(OperandNodes(1)) \cap Range(OperandNodes(2)) # {}
    /\ Range(OperandNodes(1)) \ Range(OperandNodes(2)) # {}
    /\ Range(OperandNodes(2)) \ Range(OperandNodes(1)) # {}

\* the ids of base that the result of inner does not hold, in base's order
Minus(base, inner) ==
    SelectSeq(base, LAMBDA x :
        x \notin Range(evaluate_expr(G, inner, query.cancelled).nodes))

\* all_nodes, as search_empty lists them
AllNodes == search_empty(G, query.cancelled).nodes

\* C15: a Not operand of an And turns the running result B of the operands
\* before it into B minus the ids of its inner expression, in B's order; a
\* Not that is the whole expression or the first operand of an And yields
\* all_nodes minus the ids of its inner expression.
C15_NotIsDifference ==
    /\ (query.active /\ query.expr.tag = "Not" /\ outcome.kind = "Some")
       => outcome.nodes = Minus(AllNodes, query.expr.parts[1])
    /\ AndAnswered =>
           \A k \in DOMAIN query.expr.parts :
               query.expr.parts[k].tag = "Not" =>
                   RunningResult(k).nodes =
                       Minus(IF k = 1 THEN AllNodes ELSE RunningResult(k - 1).nodes,
                             query.expr.parts[k].parts[1])

\* an And whose second operand is a Not that takes some ids, not all, out of
\* a running result of several
C15_Witness ==
    /\ AndAnswered
    /\ Len(query.expr.parts) = 2
    /\ query.expr.parts[2].tag = "Not"
    /\ Len(OperandNodes(1)) >= 2
    /\ outcome.nodes # <<>>
    /\ Len(outcome.nodes) < Len(OperandNodes(1))

\* C16: whatever the expression, a vector that evaluate_expr returns on a
\* graph built by insert_child holds no node id twice.
C16_ResultHasNoDuplicates ==
    (query.active /\ outcome.kind = "Some")
    => \A i, j \in DOMAIN outcome.nodes : i # j => outcome.nodes[i] # outcome.nodes[j]

\* an Or of two operands that share ids returned every node of the graph
C16_Witness ==
    /\ OrAnswered
    /\ Len(outcome.nodes) >= 3
    /\ Cardinality(Range(OperandNodes(1)) \cap Range(OperandNodes(2))) >= 2

\* what the And of the query gives with its metadata filters moved to the end
Reordered ==
    evaluate_expr(G, ExprAnd(reorder_metadata_filters(query.expr.parts)),
                  query.cancelled)

\* C17: moving the metadata filters of an And behind its other operands, each
\* group in its order, leaves the set of node ids the And evaluates to as it
\* was; with a token that is not cancelled the And evaluates to a vector in
\* one order exactly when it does in the other.
C17_ReorderKeepsSet ==
    (query.active /\ query.expr.tag = "And")
    => /\ ~query.cancelled => Reordered.kind = outcome.kind
       /\ (Reordered.kind = "Some" /\ outcome.kind = "Some")
          => Range(Reordered.nodes) = Range(outcome.nodes)

\* an And of a type filter, a Not and a name term, which the pass reorders,
\* returned some nodes and left others out
C17_Witness ==
    /\ AndAnswered
    /\ Len(query.expr.parts) = 3
    /\ is_metadata_filter(query.expr.parts[1])
    /\ query.expr.parts[2].tag = "Not"
    /\ query.expr.parts[3].tag = "Term" /\ ~is_metadata_filter(query.expr.parts[3])
    /\ outcome.nodes # <<>>
    /\ Len(outcome.nodes) < Len(OperandNodes(1))

----------------------------------------------------------------------------
(* Properties of the name pool *)

PushedNames == {pushed[i].name : i \in DOMAIN pushed}

\* the names the pool holds, one for each NUL that ends a name
PoolEntries == Cardinality({i \in 1..(Len(pool) - 1) : byte_at(pool, i) = NUL})

\* C18: push is deduplicating: the pool holds each distinct string pushed
\* once, its len() is the number of distinct strings pushed, and a push of a
\* string that is in the pool already appends nothing and returns the handle
\* the first push of it returned.
C18_PushDeduplicates ==
    /\ PoolEntries = Cardinality(PushedNames)
    /\ pushed # <<>> => NamePool_len(pool) = Cardinality(PushedNames)
    /\ \A i, j \in DOMAIN pushed :
           i < j /\ pushed[i].name = pushed[j].name =>
               /\ pushed[j].len_after = pushed[j].len_before
               /\ pushed[j].start = pushed[i].start

\* C19: search_exact of a name between two NULs returns that name exactly
\* once when the name was ever pushed, and nothing when it never was.
C19_SearchExactFindsOne ==
    last_search.searched =>
        /\ ~last_search.exact.panicked
        /\ last_search.exact.names =
               IF last_search.needle \in PushedNames
               THEN <<last_search.needle>> ELSE <<>>

\* C20: for every pool, chunk size and needle, the empty needle included,
\* par_search_substr and search_substr return the same set of names.
C20_ParSearchEqualsSearch ==
    last_search.searched =>
        /\ ~last_search.substr.panicked
        /\ ~last_search.par.panicked
        /\ Range(last_search.par.names) = Range(last_search.substr.names)

\* whether the needle occurs in the name
contains(name, needle) ==
    \E i \in 0..(Len(name) - Len(needle)) : slice(name, i, i + Len(needle)) = needle

\* the names of the pool's entries, in pool order, that contain the needle
EntriesWith(needle) ==
    SelectSeq([i \in DOMAIN pushed |-> pushed[i].name],
              LAMBDA name : contains(name, needle))

\* C21: for a non-empty needle, search_substr and search_subslice yield the
\* entries of the pool that contain the needle, each once and in pool order,
\* and no other entry.
C21_SearchYieldsEachEntryOnce ==
    last_search.searched /\ last_search.needle # <<>> =>
        /\ last_search.substr = Names_found(EntriesWith(last_search.needle))
        /\ last_search.subslice = Names_found(EntriesWith(last_search.needle))

\* the needle a was searched for in a pool that holds aa, where it occurs
\* twice, next to an entry without it and one more entry with it
C21_Witness ==
    /\ last_search.searched
    /\ last_search.needle = <<1>>
    /\ \E i \in DOMAIN pushed : pushed[i].name = <<1, 1>>
    /\ \E i \in DOMAIN pushed : ~contains(pushed[i].name, <<1>>)
    /\ Len(last_search.substr.names) = 2

----------------------------------------------------------------------------
(* Properties of the persistent cache *)

\* the (parent path, name, metadata) tuples of a graph
NodeTuples(g) ==
    {<<IF g.nodes[n].parent = OptionSlabIndex_none THEN <<>>
       ELSE node_path(g, g.nodes[n].parent),
       g.nodes[n].name, g.nodes[n].metadata>> : n \in PresentIds(g)}

\* a renumbering of the nodes under which every node keeps its name and
\* metadata and every stored parent and child index names the same node
SameNodes(before, after) ==
    \E f \in [PresentIds(before) -> PresentIds(after)] :
        /\ \A m, n \in PresentIds(before) : m # n => f[m] # f[n]
        /\ \A n \in PresentIds(before) :
               LET old == before.nodes[n]
                   new == after.nodes[f[n]]
               IN  /\ new.name = old.name
                   /\ new.metadata = old.metadata
                   /\ new.parent = IF old.parent \in PresentIds(before)
                                   THEN f[old.parent] ELSE OptionSlabIndex_none
                   /\ Len(new.children) = Len(old.children)
                   /\ \A i \in DOMAIN old.children :
                          /\ old.children[i] \in PresentIds(before)
                          /\ new.children[i] = f[old.children[i]]

----------------------------------------------------------------------------
(* Properties of the fs event processor *)

\* C23: ingest never fails the process: process_event returns for every
\* event, the processing thread neither panics nor goes down, and an event
\* that cannot be applied is dropped.
C23_IngestNeverPanics ==
    /\ processor.result # "Panicked"
    /\ processor.thread # "Panicked"

----------------------------------------------------------------------------
(* Properties of the size and date filters *)

\* a size of the query language in bytes, in 1024-based units
SizeBytes(text) ==
    CASE text = "500" -> 500
      [] text = "1kb" -> 1024
      [] text = "10kb" -> 10 * 1024

KiB == 1024

MiB == 1024 * 1024

\* the files of the graph whose size the predicate accepts
FilesSized(accepted) ==
    {n \in PresentIds(G) :
        /\ file_nodes[n].metadata.type = "File"
        /\ file_nodes[n].metadata.state = "Some"
        /\ file_nodes[n].metadata.size \in accepted}

SizesUpTo == 0..(10 * KiB + 1)

\* the sizes a comparison accepts
Compared(op, t) ==
    {size \in SizesUpTo :
        CASE op = ">" -> size > t
          [] op = ">=" -> size >= t
          [] op = "<" -> size < t
          [] op = "<=" -> size <= t
          [] op \in {"=", ""} -> size = t
          [] op = "!=" -> size # t}

Answered(terms) == query.active /\ ~query.cancelled /\ query.expr \in terms

\* C24: a size comparison matches exactly the files whose size stands in that
\* relation to the threshold, the bare form as =; directories never match.
C24_SizeComparison ==
    Answered(SizeComparisons) =>
        /\ outcome.kind = "Some"
        /\ Range(outcome.nodes) =
               FilesSized(Compared(query.expr.arg[1], SizeBytes(query.expr.arg[2])))

\* the sizes a keyword accepts, among the sizes of the files
Keyworded(k) ==
    {size \in SizesUpTo :
        CASE k = "empty" -> size = 0
          [] k = "tiny" -> size <= 10 * KiB
          [] k = "small" -> 10 * KiB < size /\ size <= 100 * KiB
          [] k = "medium" -> 100 * KiB < size /\ size <= MiB
          [] k = "large" -> MiB < size /\ size <= 16 * MiB
          [] k = "huge" -> 16 * MiB < size /\ size <= 128 * MiB
          [] k \in {"gigantic", "giant"} -> 128 * MiB < size}

\* C25: a size keyword matches exactly the files whose size lies in the
\* keyword's byte range.
C25_SizeKeywordRanges ==
    Answered(SizeKeywords) =>
        /\ outcome.kind = "Some"
        /\ Range(outcome.nodes) = FilesSized(Keyworded(query.expr.arg[2]))

\* the position of a bound of a range among the bounds of the model
BoundOrder(text) ==
    CASE text = "1kb" -> 1
      [] text = "10kb" -> 2
      [] text = "2024-01-01" -> 1
      [] text = "2024-12-31" -> 2

\* C26: a size or date range whose start is greater than its end fails with
\* an error and leaves the graph alone; a range whose start is its end, or is
\* below it, is accepted.
C26_InvertedRangeIsError ==
    [][(query'.active /\ ~query.active /\ ~query'.cancelled
            /\ query'.expr \in SizeRanges \cup DateRanges) =>
          IF BoundOrder(query'.expr.arg[2]) > BoundOrder(query'.expr.arg[3])
          THEN outcome'.kind = "Err" /\ UNCHANGED GraphVars
          ELSE outcome'.kind # "Err"]_vars

----------------------------------------------------------------------------
(* Properties of the containment and extension filters *)

\* the nodes that sit at a path
NodesAt(path) == {n \in PresentIds(G) : node_path(G, n) = path}

PathFilterAsked ==
    query.active /\ query.expr.tag = "Term" /\ query.expr.kind \in {"Parent", "InFolder"}

\* C27: parent:P returns exactly the direct children of the node at P and
\* infolder:P exactly its strict descendants; a P outside the indexed root,
\* or one that resolves to no node, is an error and not an empty result.
C27_ParentAndInFolder ==
    PathFilterAsked =>
        LET P == query.expr.arg
            at == NodesAt(P)
        IN  IF ~StartsWith(P, RootPath) \/ at = {}
            THEN outcome.kind = "Err"
            ELSE \A target \in at :
                   IF query.expr.kind = "Parent"
                   THEN /\ outcome.kind = "Some"
                        /\ Range(outcome.nodes) =
                               {c \in PresentIds(G) : file_nodes[c].parent = target}
                   ELSE ~query.cancelled =>
                        /\ outcome.kind = "Some"
                        /\ Range(outcome.nodes) = Subtree(G, target) \ {target}

\* infolder: of the root returned a child and a grandchild
C27_Witness ==
    /\ PathFilterAsked
    /\ query.expr = ExprTerm("InFolder", RootPath)
    /\ outcome.kind = "Some"
    /\ \E c, d \in Range(outcome.nodes) :
           file_nodes[c].parent = root /\ file_nodes[d].parent = c

\* the lowercased text after the last '.' of the names, where there is one
LowerExtension(name) ==
    CASE name \in {"a.txt", "b.TXT"} -> "txt"
      [] name = "e.tar.gz" -> "gz"
      [] OTHER -> "none"

\* the lowercased items of the lists that are written as plain extensions
LowerList(arg) ==
    CASE arg \in {<<"txt">>, <<"TXT">>} -> {"txt"}
      [] arg = <<"gz", "txt">> -> {"gz", "txt"}
      [] arg = <<"tar.gz">> -> {"tar.gz"}

PlainLists == {<<"txt">>, <<"TXT">>, <<"gz", "txt">>, <<"tar.gz">>}

\* the nodes ext:L is to match
ExtMatches(arg) ==
    {n \in PresentIds(G) :
        /\ file_nodes[n].metadata.type = "File"
        /\ LowerExtension(file_nodes[n].name) \in LowerList(arg)}

----------------------------------------------------------------------------
(* Properties of the home expansion *)

\* the values home expansion rewrites: ~ alone, and what starts with ~/ or ~\
Expands(text) ==
    \/ text = <<"~">>
    \/ Len(text) >= 2 /\ text[1] = "~" /\ text[2] \in {"/", "\\"}

\* a value with its leading ~ replaced by HOME, where it is to be rewritten
Rewritten(text, home) ==
    IF Expands(text) THEN home \o SubSeq(text, 2, Len(text)) ELSE text

\* an argument of a path filter with each of its values rewritten
RewrittenArgument(argument, home) ==
    [some |-> argument.some,
     raw |-> Rewritten(argument.raw, home),
     kind |-> argument.kind,
     values |->
        CASE argument.kind \in {"Bare", "Phrase"} -> argument.values
          [] argument.kind \in {"List", "Comparison"} ->
                [i \in DOMAIN argument.values |-> Rewritten(argument.values[i], home)]
          [] argument.kind = "Range" ->
                [i \in DOMAIN argument.values |->
                    [some |-> argument.values[i].some,
                     text |-> Rewritten(argument.values[i].text, home)]]]

\* the query home expansion is to return
RECURSIVE ExpectedExpansion(_, _)
ExpectedExpansion(expr, home) ==
    IF expr.tag = "Empty" THEN expr
    ELSE IF expr.tag = "Term"
    THEN IF expr.kind = "Word" THEN [expr EXCEPT !.arg = Rewritten(@, home)]
         ELSE IF expr.kind \in {"Parent", "InFolder", "NoSubfolders"} /\ expr.arg.some
         THEN [expr EXCEPT !.arg = RewrittenArgument(@, home)]
         ELSE expr
    ELSE [expr EXCEPT !.parts =
              [i \in DOMAIN expr.parts |-> ExpectedExpansion(expr.parts[i], home)]]

\* C29: home expansion replaces the leading ~ of a value that is ~ or starts
\* with ~/ or ~\ by HOME, in Word terms and in the arguments of parent:,
\* infolder: and nosubfolders: at every depth; Phrase and Regex terms, other
\* filters and ~name values are returned as they are, and so is the whole
\* query when HOME is unset.
C29_HomeExpansion ==
    last_rewrite.op = "expand" =>
        IF last_rewrite.home.some
        THEN last_rewrite.output =
                 ExpectedExpansion(last_rewrite.input, last_rewrite.home.text)
        ELSE last_rewrite.output = last_rewrite.input

\* with HOME set, a word was expanded at the top of an Or and a parent:
\* argument two levels below it
C29_Witness ==
    /\ last_rewrite.op = "expand"
    /\ last_rewrite.home.some
    /\ last_rewrite.input.tag = "Or"
    /\ last_rewrite.input.parts[1] = ExprTerm("Word", <<"~", "/", "c">>)
    /\ last_rewrite.output.parts[1] = ExprTerm("Word", <<"/", "h", "/", "c">>)
    /\ last_rewrite.input.parts[2].parts[1].kind = "Parent"
    /\ last_rewrite.output.parts[2].parts[1].arg.raw = <<"/", "h", "/", "c">>

----------------------------------------------------------------------------
(* Properties of the optimizer's empty operands *)

\* the expressions that stand for nothing: Expr::Empty, the empty phrase, an
\* Or with such an operand, an And of such operands only
RECURSIVE StandsForNothing(_)
StandsForNothing(expr) ==
    \/ expr.tag = "Empty"
    \/ expr.tag = "Term" /\ expr.kind = "Phrase" /\ expr.arg = <<>>
    \/ expr.tag = "Or" /\ \E i \in DOMAIN expr.parts : StandsForNothing(expr.parts[i])
    \/ expr.tag = "And" /\ \A i \in DOMAIN expr.parts : StandsForNothing(expr.parts[i])

\* the operands of the optimized query: those of an And, else the query
\* itself unless it is Empty
OperandsLeft(expr) ==
    IF expr.tag = "And" THEN Len(expr.parts)
    ELSE IF expr.tag = "Empty" THEN 0 ELSE 1

ParsedAnswered == query.active /\ last_rewrite.op = "optimize"

\* C30: an Or with at least one empty operand becomes Expr::Empty, and that
\* evaluates to all nodes of the graph; an And loses its empty operands and
\* becomes Empty exactly when all its operands are empty.
C30_EmptyOperands ==
    ParsedAnswered =>
        LET parsed == last_rewrite.input
            expr == last_rewrite.output
        IN  /\ query.expr = expr
            /\ (parsed.tag = "Or" /\ StandsForNothing(parsed))
                   => /\ expr = ExprEmpty
                      /\ ~query.cancelled
                            => /\ outcome.kind = "Some"
                               /\ Range(outcome.nodes) = PresentIds(G)
            /\ parsed.tag = "And"
                   => /\ expr = ExprEmpty <=> StandsForNothing(parsed)
                      /\ OperandsLeft(expr) =
                             Cardinality({i \in DOMAIN parsed.parts :
                                              ~StandsForNothing(parsed.parts[i])})
                      /\ expr.tag = "And"
                            => \A j \in DOMAIN expr.parts : expr.parts[j] # ExprEmpty

\* a word with a trailing | was answered with every node of a graph of three
C30_Witness ==
    /\ ParsedAnswered
    /\ ~query.cancelled
    /\ last_rewrite.input = ExprOr(<<ExprTerm("Word", <<"a">>), ExprEmpty>>)
    /\ last_rewrite.output = ExprEmpty
    /\ Len(outcome.nodes) = 3
    /\ evaluate_expr(G, ExprTerm("Word", <<"a">>), FALSE).nodes # outcome.nodes

----------------------------------------------------------------------------
(* Properties of the display pipe *)

\* C31: take_fs_events provides the first events received since the previous
\* take: once the pipe is full the events that are not provided are the later
\* ones, so every event in the pipe is older than every discarded one.
C31_TakeProvidesFirstEvents ==
    \A d \in Range(display.dropped) :
        \A i \in DOMAIN display.limited_fs_events : display.limited_fs_events[i] < d

FillReturned ==
    display.fill.pc = "try_send" /\ display'.fill.pc = "idle"

\* the pipe within its capacity and in arrival order, the discarded events
\* older than those in the pipe, the call at its second try_send at most
PipeInOrder ==
    /\ Len(display.limited_fs_events) <= ChannelLen
    /\ \A i, j \in DOMAIN display.limited_fs_events :
           i < j => display.limited_fs_events[i] < display.limited_fs_events[j]
    /\ \A d \in Range(display.dropped) :
           \A i \in DOMAIN display.limited_fs_events : d < display.limited_fs_events[i]
    /\ display.fill.sends <= 2
    /\ display.fill.pc = "try_recv" => display.fill.sends = 1

\* C32: fill_fs_event neither waits nor loops on: it returns at its second
\* try_send at the latest. When it returns the given event is the newest of
\* the pipe, the pipe holds no more than its capacity, the events it
\* discarded are older than every event in the pipe, and the pipe is in
\* arrival order.
C32_FillFsEvent ==
    /\ []PipeInOrder
    /\ [][FillReturned =>
            /\ display'.limited_fs_events # <<>>
            /\ display'.limited_fs_events[Len(display'.limited_fs_events)]
                   = display.fill.event]_vars

\* a call found the pipe full, discarded its oldest event and returned
C32_Witness ==
    /\ display.fill.pc = "idle"
    /\ display.fill.sends = 2
    /\ Len(display.limited_fs_events) = ChannelLen
    /\ display.dropped # <<>>
    /\ display.limited_fs_events[Len(display.limited_fs_events)] = display.fill.event

----------------------------------------------------------------------------
(* Properties of the processor's event loop and of close *)

ProcessEventStep ==
    /\ processor.thread = "Running"
    /\ Len(processor'.events_receiver) < Len(processor.events_receiver)

CloseStep ==
    /\ processor'.close_result # "None"
    /\ processor'.events_receiver = processor.events_receiver
    /\ processor'.thread = processor.thread

\* once the database is taken a process_event fails and applies nothing, a
\* close fails, and no close without a database writes the file
ClosedProcessorFails ==
    /\ (ProcessEventStep /\ ~processor.database.open)
           => /\ processor'.result = "Err"
              /\ processor'.database = processor.database
              /\ processor'.limited_fs_events = processor.limited_fs_events
    /\ (CloseStep /\ ~processor.database.open)
           => /\ processor'.close_result = "Err"
              /\ processor'.into_fs = processor.into_fs
              /\ ~processor'.database.open

\* a process_event on an open database applies its event and then makes it
\* the newest of the display pipe
AppliedThenDisplayed ==
    (ProcessEventStep /\ processor.database.open)
        => /\ Head(processor.events_receiver) \in processor'.database.fs_entry
           /\ processor'.limited_fs_events # <<>>
           /\ processor'.limited_fs_events[Len(processor'.limited_fs_events)]
                  = Head(processor.events_receiver)

\* C34: the processor applies each event to the database and then makes it
\* available through the display pipe; once close() has taken the database
\* every later process_event fails without applying its event, a second
\* close() fails, and close() before the database is there fails without
\* writing a file.
C34_AppliedBeforeDisplayedAndClose ==
    [][AppliedThenDisplayed /\ ClosedProcessorFails]_vars

\* the part on the closed processor by itself
ClosedProcessorAlwaysFails == [][ClosedProcessorFails]_vars

----------------------------------------------------------------------------
(* Properties of the background thread *)

RescanUnderway == worker.pc \in {"rescan", "rescanning", "spawn"}

\* during a rescan the thread holds no watcher and no watcher can reach it;
\* a batch is applied only while the watcher that sent it is the one held;
\* the graph is partial only inside rescan(); every result comes from a whole
\* graph
RescanApart ==
    /\ RescanUnderway
           => /\ worker.event_watcher = 0
              /\ \A gen \in DOMAIN worker.streams :
                     /\ ~worker.streams[gen].receiver
                     /\ ~worker.streams[gen].token
                     /\ worker.streams[gen].channel = <<>>
    /\ \A i \in DOMAIN worker.cache.applied :
           worker.cache.applied[i].rescans = worker.cache.applied[i].gen - 1
    /\ ~worker.cache.whole => worker.pc = "rescanning"
    /\ Len(worker.streams) <= worker.cache.rescans + 1
    /\ \A i \in DOMAIN worker.answered : worker.answered[i].whole

\* a watcher is spawned when the thread starts or after rescan() returned,
\* from the cursor of the cache as it is then
SpawnedFromCursor ==
    Len(worker'.streams) > Len(worker.streams)
        => /\ worker.pc \in {"init", "spawn"}
           /\ worker.cache.whole
           /\ worker'.streams[Len(worker'.streams)].since = worker'.cache.last_event_id
           /\ worker'.cache = worker.cache

\* C33: when handle_fs_events returns Rescan the worker gives up the current
\* event watcher before it rescans, applies no batch of the old watcher
\* during or after the rescan, starts the new watcher only when the rescan is
\* over, from the last_event_id the cache has then, and answers no query from
\* a partly rebuilt graph.
C33_RescanReplacesWatcher == []RescanApart /\ [][SpawnedFromCursor]_vars

\* after a rescan the second watcher is in place and a query was answered,
\* while the batch the first watcher sent after its first one went nowhere
C33_Witness ==
    /\ worker.cache.rescans = 1
    /\ worker.event_watcher = 2
    /\ Len(worker.cache.applied) = 1
    /\ worker.streams[1].next = worker.streams[1].since + 2
    /\ worker.streams[1].channel = <<>>
    /\ worker.answered # <<>>
    /\ worker.answered[1].applied = 1

\* C35: each search command that ran concurrently with others returns the
\* result the worker computed for its own query.
C35_ResultGoesToItsCaller ==
    \A c \in DOMAIN worker.commands :
        worker.commands[c].pc = "done" => worker.commands[c].result = worker.commands[c].query

\* once the cache is handed over the thread is out of its loop and the cache
\* is as it was handed over; the file is written once at most, with it
HandedOver ==
    /\ worker.cache.owner # "worker"
           => /\ worker.pc = "exited"
              /\ worker.cache.applied = worker.handed
    /\ Len(worker.cache_file) <= 1
    /\ worker.main = "done" => worker.cache_file = <<worker.handed>>
    /\ worker.main # "done" => worker.cache_file = <<>>

\* no batch and no query gets to the cache after the hand-off
UntouchedAfterHandOff ==
    worker.cache.owner # "worker"
        => /\ worker'.cache.applied = worker.cache.applied
           /\ worker'.answered = worker.answered
           /\ worker'.pc = worker.pc

\* C36: on shutdown the worker hands the cache to the main thread and leaves
\* its loop; after that no batch and no query is applied to the cache, and
\* the cache is written to the file once, with every batch that was applied
\* before the hand-off.
C36_ShutdownHandsOverOnce == []HandedOver /\ [][UntouchedAfterHandOff]_vars

\* the file was written with one batch while a second batch and a query
\* were left behind
C36_Witness ==
    /\ worker.main = "done"
    /\ Len(worker.handed) = 1
    /\ worker.cache_file = <<worker.handed>>
    /\ worker.batches = 2
    /\ worker.search_rx # <<>>

HistoryDoneReceived ==
    \E i \in DOMAIN worker.received : "HistoryDone" \in worker.received[i]

\* C37: init_completed is emitted once at most: right after a full walk, or,
\* with a cache loaded from the file, not before and always when a batch
\* comes in which the flags of some event include HistoryDone.
C37_InitCompletedOnce ==
    /\ worker.init_completed <= 1
    /\ (~worker.loaded /\ worker.pc # "init") => worker.init_completed = 1
    /\ worker.loaded => (worker.init_completed = 1 <=> HistoryDoneReceived)

\* the same with the flags of the event being HistoryDone and nothing else
InitCompletedOnExactFlag ==
    /\ worker.init_completed <= 1
    /\ (~worker.loaded /\ worker.pc # "init") => worker.init_completed = 1
    /\ worker.loaded
           => (worker.init_completed = 1
                   <=> \E i \in DOMAIN worker.received : worker.received[i] = {"HistoryDone"})

----------------------------------------------------------------------------
(* Properties of the walks *)

\* how often a directory is in a tree
RECURSIVE TimesInTree(_, _)
RECURSIVE TimesAmong(_, _, _)
TimesAmong(children, i, name) ==
    IF i > Len(children) THEN 0
    ELSE TimesInTree(children[i], name) + TimesAmong(children, i + 1, name)

TimesInTree(node, name) ==
    IF ~node.some THEN 0
    ELSE (IF node.name = name THEN 1 ELSE 0) + TimesAmong(node.children, 1, name)

\* the walked directories: those reached that are not ignored
Walked(dir) == walker.walk_data.read_dirs[dir] > 0

\* C38: a directory whose reading fails with Interrupted is read once more
\* and then given up; the walk returns, each directory it read is once in
\* the tree and counted once in num_dirs.
C38_InterruptedRetriesOnce ==
    walker.walked =>
        /\ \A dir \in WalkDirs : walker.walk_data.read_dirs[dir] <= 2
        /\ \A dir \in WalkDirs : Walked(dir) => TimesInTree(walker.node, dir) = 1
        /\ walker.walk_data.num_dirs = Cardinality({dir \in WalkDirs : Walked(dir)})

\* C39: when the walk has returned and the channel is drained, every entry
\* a visitor converted has been received by the inserting loop.
C39_NoEntryLeftInBuffer ==
    (~visitors.walking /\ visitors.raw_entry_receiver = <<>>)
        => visitors.converted \subseteq visitors.inserted

----------------------------------------------------------------------------
(* Properties of the parallel searches of the name pool *)

\* whether the name is what the parallel search looks for with the needle
ParMatches(variant, name, needle) ==
    CASE variant \in {"substr", "subslice"} -> contains(name, needle)
      [] variant = "suffix" ->
             /\ Len(needle) <= Len(name)
             /\ slice(name, Len(name) - Len(needle), Len(name)) = needle
      [] variant = "prefix" ->
             /\ Len(needle) <= Len(name)
             /\ slice(name, 0, Len(needle)) = needle
      [] variant = "exact" -> name = needle

\* the names of the pool's entries, in pool order, that the search looks for
ParExpected(variant) ==
    SelectSeq([i \in DOMAIN pushed |-> pushed[i].name],
              LAMBDA name : ParMatches(variant, name, last_search.needle))

\* what the parallel search returned
ParAnswer(variant) ==
    CASE variant = "substr" -> last_search.par
      [] variant = "subslice" -> last_search.par_subslice
      [] variant = "suffix" -> last_search.par_suffix
      [] variant = "prefix" -> last_search.par_prefix
      [] variant = "exact" -> last_search.par_exact

\* every hit a chunk hands on starts inside the chunk
ReportsInsideSpan ==
    \A variant \in ParVariants : \A r \in last_search.reports[variant] :
        r.chunk <= r.start /\ r.start < r.search_end

\* no hit is handed on by two chunks
ReportedByOneChunk ==
    \A variant \in ParVariants : \A r1, r2 \in last_search.reports[variant] :
        r1.start = r2.start => r1.chunk = r2.chunk

\* the merged result is the matching entries, one name for each
MergedHoldsEachMatchOnce ==
    \A variant \in ParVariants :
        ParAnswer(variant) = Names_found(ParExpected(variant))

\* C40: in par_search_substr, par_search_subslice, par_search_suffix,
\* par_search_prefix and par_search_exact with a non-empty name to look for,
\* each chunk reports only hits that start inside its span [i, search_end),
\* no hit is reported by two chunks, and the merged result holds every
\* matching entry of the pool exactly once.
C40_ParSearchChunksAndMerge ==
    last_search.searched /\ last_search.needle # <<>> =>
        /\ ReportsInsideSpan
        /\ ReportedByOneChunk
        /\ MergedHoldsEachMatchOnce

\* whatever is searched for, the hits of a chunk start inside it and belong
\* to it alone
ParChunksKeepToTheirSpan ==
    last_search.searched => ReportsInsideSpan /\ ReportedByOneChunk

\* a hit that a chunk found beyond its end, in the bytes it reads of the next
\* chunk, is handed on by a search other than par_search_substr
ParHitAcrossBoundary ==
    /\ last_search.searched
    /\ \E variant \in ParVariants \ {"substr"} :
           \E r \in last_search.reports[variant] :
               r.start + Len(last_search.needle) > r.search_end
    /\ Len(pool) > last_search.chunk_size

\* when no name was pushed twice, the merged results are the matching entries
ParSearchOfDistinctNames ==
    (/\ last_search.searched
     /\ last_search.needle # <<>>
     /\ \A i, j \in DOMAIN pushed : pushed[i].name = pushed[j].name => i = j)
        => MergedHoldsEachMatchOnce

\* with names pushed twice, the merged results other than par_search_exact's
\* are the matching entries
ParSearchButExact ==
    last_search.searched /\ last_search.needle # <<>> =>
        \A variant \in ParVariants \ {"exact"} :
            ParAnswer(variant) = Names_found(ParExpected(variant))

====
